---- MODULE Spec2Model ----
(***************************************************************************)
(* Model of the batch submission pipeline of biz-api-batch-process:        *)
(* src/src/api_sender.py (_send_single_request, APISender.send_batch,      *)
(* APISender._test_single_record, APISender._save_responses).              *)
(*                                                                         *)
(* Two specifications share the module:                                    *)
(*   SpecSend  one call of _send_single_request on bounded inputs          *)
(*   Spec      one run of APISender.send_batch with its worker pool        *)
(***************************************************************************)
EXTENDS Integers, Sequences, FiniteSets, TLC

VARIABLES
    call,                   \* one call of _send_single_request (SpecSend)
    all_records,            \* send_batch: the list loaded from the JSON file
    retry_indexes,          \* send_batch: argument, None or a list of ints
    num_processes,          \* config.num_processes
    rate_limit_delay,       \* config.rate_limit_delay
    pc,                     \* position of the orchestrating thread in send_batch
    record_index_map,       \* send_batch: local record_index_map
    records,                \* send_batch: local records
    queue,                  \* tasks of args_list the pool has not handed out yet
    workers,                \* pool worker -> what it is doing
    results,                \* send_batch: local results (completion order)
    successful_responses,   \* self.successful_responses
    failed_responses,       \* self.failed_responses
    files,                  \* the two output files of this run
    ret,                    \* value returned by send_batch
    issued,                 \* log: every request handed to the transport, in order
    warnings,               \* log: indexes reported out of range
    answered,               \* log: what the transport did with each request
    confirmed,              \* the branch taken at the prompt
    user_input,             \* what the operator typed at the prompt
    uuid,                   \* number of request ids generated so far
    earlier,                \* the output files an earlier run left behind
    rules,                  \* Validator.rules and Converter.rules, in file order
    headers,                \* main.py: headers of the CSV file
    rows,                   \* main.py: rows of the CSV file, header -> cell
    header_errors,          \* what validate_headers returned
    validation,             \* what validate_rows returned (main.py: result)
    json_data,              \* what csv_to_json returned
    vpc,                    \* position of a caller of the validator and converter
    argv,                   \* main.py: command line (args), files and environment
    main                    \* main.py: position, exit code and log of the process

vars == <<call, all_records, retry_indexes, num_processes, rate_limit_delay, pc,
          record_index_map, records, queue, workers, results,
          successful_responses, failed_responses, files, ret, issued, warnings,
          answered, confirmed, user_input, uuid, earlier, rules, headers, rows,
          header_errors, validation, json_data, vpc, argv, main>>

\* what send_batch reads and writes
batchVarsOnly == <<all_records, retry_indexes, num_processes, rate_limit_delay, pc,
                   record_index_map, records, queue, workers, results,
                   successful_responses, failed_responses, files, ret, issued,
                   warnings, answered, confirmed, user_input, uuid>>

\* the CSV side of the pipeline: validator.py, converter.py, main.py
csvVars == <<rules, headers, rows, header_errors, validation, json_data, vpc, argv, main>>

\* what a run of send_batch never assigns
inputVars == <<call, all_records, retry_indexes, num_processes, rate_limit_delay,
               earlier, csvVars>>

batchVars == <<all_records, retry_indexes, num_processes, rate_limit_delay, pc,
               record_index_map, records, queue, workers, results,
               successful_responses, failed_responses, files, ret, issued,
               warnings, answered, confirmed, user_input, uuid, earlier, csvVars>>

-----------------------------------------------------------------------------
(* Bounds of the model *)

MaxRecords == 3         \* longest original file
MaxRetryLen == 2        \* longest retry_indexes list
MaxWorkers == 2         \* largest num_processes
MaxRows == 2            \* most rows of a CSV file

(* Program constants *)

ExcerptLimit == 500     \* response.text[:500]
HttpOkLow == 200        \* 200 <= response.status_code
HttpOkHigh == 300       \* response.status_code < 300

-----------------------------------------------------------------------------
(* Python values *)

None == "None"          \* no exception / no handler

Min(a, b) == IF a < b THEN a ELSE b

\* A text is its content class and its length; text[:n] keeps the content
\* and cuts the length.
Slice(text, n) == [content |-> text.content, len |-> Min(text.len, n)]

\* bool(text): a str is truthy iff it is not empty
Truthy(text) == text.len > 0

-----------------------------------------------------------------------------
(* The transport: what requests.post / response.json can do *)

\* Exception classes with the classes an except clause matches them by.
ExcBases(e) ==
    CASE e = "ReadTimeout"      -> {"Timeout", "RequestException", "Exception"}
      [] e = "ConnectTimeout"   -> {"ConnectionError", "Timeout", "RequestException", "Exception"}
      [] e = "ConnectionError"  -> {"ConnectionError", "RequestException", "Exception"}
      [] e = "TooManyRedirects" -> {"RequestException", "Exception"}
      [] e = "JSONDecodeError"  -> {"RequestException", "Exception"}
      [] e = "ValueError"       -> {"Exception"}
      [] e = "OSError"          -> {"Exception"}

PostExceptions == {"ReadTimeout", "ConnectTimeout", "ConnectionError",
                   "TooManyRedirects", "OSError"}

\* response.json() on an unparseable body raises requests' JSONDecodeError
\* (a RequestException) or, with an older requests, a plain ValueError.
JsonExceptions == {"JSONDecodeError", "ValueError"}

Statuses == {199, 200, 299, 300, 503}

Texts == {[content |-> "", len |-> 0],
          [content |-> "json", len |-> 20],
          [content |-> "json", len |-> 500],
          [content |-> "json", len |-> 501],
          [content |-> "html", len |-> 20],
          [content |-> "html", len |-> 600]}

Parseable(text) == text.content = "json"

TransportOutcomes ==
    [kind : {"exception"}, exc : PostExceptions]
    \cup [kind : {"response"}, status : Statuses,
          text : {t \in Texts : Parseable(t) \/ ~Truthy(t)}, json_exc : {None}]
    \cup [kind : {"response"}, status : Statuses,
          text : {t \in Texts : ~Parseable(t) /\ Truthy(t)}, json_exc : JsonExceptions]

-----------------------------------------------------------------------------
(* _send_single_request *)

\* The result dict. keys is the set of keys the dict holds; status_code is
\* {} for None and {n} for the integer n; response_body and error are <<>>
\* until their key is set. (timestamp, a wall-clock reading, is left out.)
InitialResult(record, record_index, request_id) ==
    [keys          |-> {"record_index", "request_id", "request_body", "success"},
     record_index  |-> record_index,
     request_id    |-> request_id,
     request_body  |-> record,
     success       |-> FALSE,
     status_code   |-> {},
     response_body |-> <<>>,
     error         |-> <<>>]

EmptyObject == <<"{}">>                 \* the literal {}
Parsed(text) == <<"parsed", text>>      \* response.json() of a parseable body

\* Mutant: the last clause, except Exception, is missing.
HandlerFor_NoCatchAll(e) ==
    IF "Timeout" \in ExcBases(e) THEN "Timeout"
    ELSE IF "ConnectionError" \in ExcBases(e) THEN "ConnectionError"
    ELSE IF "RequestException" \in ExcBases(e) THEN "RequestException"
    ELSE None

\* The except clauses in source order; the first that matches handles.
HandlerFor(e) ==
    IF "Timeout" \in ExcBases(e) THEN "Timeout"
    ELSE IF "ConnectionError" \in ExcBases(e) THEN "ConnectionError"
    ELSE IF "RequestException" \in ExcBases(e) THEN "RequestException"
    ELSE IF "Exception" \in ExcBases(e) THEN "Exception"
    ELSE None

\* Mutant: the connection clause carries the timeout clause's message.
ErrorMessage_ConnectionAsTimeout(handler, e) ==
    CASE handler = "Timeout"          -> <<"Request timeout (30s)">>
      [] handler = "ConnectionError"  -> <<"Request timeout (30s)">>
      [] handler = "RequestException" -> <<"Request error: ", e>>
      [] handler = "Exception"        -> <<"Unexpected error: ", e>>

ErrorMessage(handler, e) ==
    CASE handler = "Timeout"          -> <<"Request timeout (30s)">>
      [] handler = "ConnectionError"  -> <<"Connection error - unable to reach API">>
      [] handler = "RequestException" -> <<"Request error: ", e>>
      [] handler = "Exception"        -> <<"Unexpected error: ", e>>

IsSuccessStatus(status) == HttpOkLow <= status /\ status < HttpOkHigh

\* f"HTTP {response.status_code}: {response.text[:500]}"
HttpError(status, text) == <<"HTTP ", status, ": ", Slice(text, ExcerptLimit)>>

\* An except clause: status_code = None and the category's message.
Handled(result, e) ==
    [result EXCEPT !.keys = @ \cup {"status_code", "error"},
                   !.status_code = {},
                   !.error = ErrorMessage(HandlerFor(e), e)]

\* lines 112-117, for a response whose body is blank or parses
Classified(result, status, text) ==
    LET ok == IsSuccessStatus(status)
    IN  [result EXCEPT
            !.keys = @ \cup {"status_code", "response_body"}
                       \cup (IF ok THEN {} ELSE {"error"}),
            !.status_code = {status},
            !.response_body = IF Truthy(text) THEN Parsed(text) ELSE EmptyObject,
            !.success = ok,
            !.error = IF ok THEN <<>> ELSE HttpError(status, text)]

\* The try block with its except clauses: the result dict after it and the
\* exception that leaves it, if any.
TryBlock(result, outcome) ==
    LET raised == IF outcome.kind = "exception" THEN outcome.exc
                  ELSE IF Truthy(outcome.text) /\ ~Parseable(outcome.text)
                       THEN outcome.json_exc   \* response.json() raises
                       ELSE None
        \* line 112 has run when response.json() raises
        atRaise == IF outcome.kind = "exception" THEN result
                   ELSE [result EXCEPT !.keys = @ \cup {"status_code"},
                                       !.status_code = {outcome.status}]
    IN  IF raised = None
        THEN [result |-> Classified(result, outcome.status, outcome.text),
              escaped |-> None]
        ELSE IF HandlerFor(raised) = None
             THEN [result |-> atRaise, escaped |-> raised]
             ELSE [result |-> Handled(atRaise, raised), escaped |-> None]

\* A worker that returns without sleeping
SleepTime_Never(delay) == 0

\* if rate_limit_delay > 0: time.sleep(rate_limit_delay)
SleepTime(delay) == IF delay > 0 THEN delay ELSE 0

\* lines 82-133 of a call: args, a fresh request id, what the transport does
SendSingleRequest(args, request_id, outcome) ==
    TryBlock(InitialResult(args.record, args.record_index, request_id), outcome)

-----------------------------------------------------------------------------
(* SpecSend: one call of _send_single_request *)

DocAt(i) == <<"doc", i>>

\* retry_indexes: Optional[List[int]]
NoRetry == [given |-> FALSE, list |-> <<>>]
RetryList(l) == [given |-> TRUE, list |-> l]

Delays == {0, 1}

CallArgs == [record : {DocAt(1), DocAt(2)}, record_index : 1..2, delay : Delays]

\* no CSV pipeline: send_batch is called on a JSON file directly
CsvIdle ==
    /\ rules = <<>>
    /\ headers = <<>>
    /\ rows = <<>>
    /\ header_errors = <<>>
    /\ validation = <<>>
    /\ json_data = <<>>
    /\ vpc = "idle"
    /\ argv = <<>>
    /\ main = <<>>

\* no earlier run: no file to retry from
NoEarlier == [given |-> FALSE, files |-> <<>>]

BatchIdle ==
    /\ all_records = <<>>
    /\ retry_indexes = NoRetry
    /\ num_processes = 1
    /\ rate_limit_delay = 0
    /\ pc = "idle"
    /\ record_index_map = <<>>
    /\ records = <<>>
    /\ queue = <<>>
    /\ workers = <<>>
    /\ results = <<>>
    /\ successful_responses = <<>>
    /\ failed_responses = <<>>
    /\ files = <<>>
    /\ ret = <<>>
    /\ issued = <<>>
    /\ warnings = <<>>
    /\ answered = {}
    /\ confirmed = "unasked"
    /\ user_input = <<>>
    /\ uuid = 0

InitSend ==
    /\ call \in [pc : {"called"}, args : CallArgs, outcome : TransportOutcomes,
                 result : {<<>>}, escaped : {None}, slept : {0}]
    /\ BatchIdle
    /\ earlier = NoEarlier
    /\ CsvIdle

\* lines 82-133: unpack, build the result, the try block
SendTry ==
    /\ call.pc = "called"
    /\ LET t == SendSingleRequest(call.args, 1, call.outcome)
       IN  call' = [call EXCEPT !.result = t.result, !.escaped = t.escaped,
                                !.pc = IF t.escaped = None THEN "after_try"
                                       ELSE "raised"]
    /\ UNCHANGED batchVars

\* lines 136-137
SendSleep ==
    /\ call.pc = "after_try"
    /\ call.args.delay > 0
    /\ call' = [call EXCEPT !.slept = SleepTime(call.args.delay), !.pc = "slept"]
    /\ UNCHANGED batchVars

\* line 139
SendReturn ==
    /\ \/ call.pc = "slept"
       \/ call.pc = "after_try" /\ ~(call.args.delay > 0)
    /\ call' = [call EXCEPT !.pc = "returned"]
    /\ UNCHANGED batchVars

NextSend == SendTry \/ SendSleep \/ SendReturn

SpecSend == InitSend /\ [][NextSend]_vars

-----------------------------------------------------------------------------
(* Spec: one run of APISender.send_batch *)

Range(f) == {f[i] : i \in DOMAIN f}

SeqsUpTo(S, n) == UNION {[1..k -> S] : k \in 0..n}

CallIdle == [pc |-> "idle", args |-> <<>>, outcome |-> <<>>, result |-> <<>>,
             escaped |-> None, slept |-> 0]

\* What the transport answers in a batch run: a 200 and a 503 with a JSON
\* body, and a 503 with an error page that does not parse. (SpecSend covers
\* every outcome of TransportOutcomes for the single call.)
BatchOutcomes ==
    {[kind |-> "response", status |-> 200,
      text |-> [content |-> "json", len |-> 20], json_exc |-> None],
     [kind |-> "response", status |-> 503,
      text |-> [content |-> "json", len |-> 20], json_exc |-> None],
     [kind |-> "response", status |-> 503,
      text |-> [content |-> "html", len |-> 600], json_exc |-> "JSONDecodeError"]}

\* What the operator types at the prompt, as lists of characters.
Answers == {<<" ", "Y">>, <<"Y", "e", "s", " ">>,
            <<"n", "o">>, <<>>, <<"y", "e", "s", "s">>, <<"y", " ", "e", "s">>}

\* str.strip(), on the blank
RECURSIVE LStrip(_)
LStrip(s) == IF s # <<>> /\ Head(s) = " " THEN LStrip(Tail(s)) ELSE s

RECURSIVE RStrip(_)
RStrip(s) == IF s # <<>> /\ s[Len(s)] = " " THEN RStrip(SubSeq(s, 1, Len(s) - 1)) ELSE s

Strip(s) == RStrip(LStrip(s))

LowerChar(c) ==
    CASE c = "Y" -> "y" [] c = "E" -> "e" [] c = "S" -> "s"
      [] c = "N" -> "n" [] c = "O" -> "o" [] c = "T" -> "t"
      [] c = "R" -> "r" [] c = "U" -> "u" [] c = "F" -> "f"
      [] c = "A" -> "a" [] c = "L" -> "l" [] c = "B" -> "b"
      [] c = "C" -> "c" [] c = "K" -> "k" [] OTHER -> c

\* str.lower()
Lower(s) == [i \in 1..Len(s) |-> LowerChar(s[i])]

\* Mutant: only the first letter of the answer is looked at.
Affirmative_FirstLetter(answer) ==
    Lower(Strip(answer)) # <<>> /\ Head(Lower(Strip(answer))) = "y"

\* user_input not in ['yes', 'y'] decides, after strip().lower()
Affirmative(answer) == Lower(Strip(answer)) \in {<<"y", "e", "s">>, <<"y">>}

\* if retry_indexes: (None and the empty list are both falsy)
RetryMode(r) == r.given /\ r.list # <<>>

\* 1 <= idx <= len(all_records)
InRange(idx, all) == 1 <= idx /\ idx <= Len(all)

\* lines 204-211: the in-range requested indexes, in the order requested
RECURSIVE ActualIndexes(_, _)
ActualIndexes(requested, all) ==
    IF requested = <<>> THEN <<>>
    ELSE IF InRange(Head(requested), all)
         THEN <<Head(requested)>> \o ActualIndexes(Tail(requested), all)
         ELSE ActualIndexes(Tail(requested), all)

\* lines 204-211: the indexes warned about
RECURSIVE SkippedIndexes(_, _)
SkippedIndexes(requested, all) ==
    IF requested = <<>> THEN <<>>
    ELSE IF InRange(Head(requested), all)
         THEN SkippedIndexes(Tail(requested), all)
         ELSE <<Head(requested)>> \o SkippedIndexes(Tail(requested), all)

\* Mutant: all_records[idx], the 1-based index used on the 0-based list.
RecordAt_NoShift(all, idx) == all[(idx % Len(all)) + 1]

\* records.append(all_records[idx - 1]) (0-based list; all[i] here is 1-based)
RecordAt(all, idx) == all[idx]

\* lines 199-221
SelectedIndexes(r, all) ==
    IF RetryMode(r) THEN ActualIndexes(r.list, all)
    ELSE [i \in 1..Len(all) |-> i]

SelectedRecords(r, all) ==
    IF RetryMode(r)
    THEN LET a == ActualIndexes(r.list, all)
         IN  [k \in 1..Len(a) |-> RecordAt(all, a[k])]
    ELSE all

\* records[1:] whatever the number of records
RecordsToProcess_Tail(recs) == Tail(recs)

\* lines 252-258: what is left for the bulk phase
RecordsToProcess(recs) == IF Len(recs) > 1 THEN Tail(recs) ELSE recs
IndexesToProcess(map) == IF Len(map) > 1 THEN Tail(map) ELSE map

\* Mutant: the bulk phase takes the first record again.
ArgsList_WithFirst(recs, map, delay) ==
    [k \in 1..Min(Len(recs), Len(map)) |->
        [record |-> recs[k], record_index |-> map[k], delay |-> delay]]

\* lines 276-279
ArgsList(recs, map, delay) ==
    LET rp == RecordsToProcess(recs)
        ip == IndexesToProcess(map)
    IN  [k \in 1..Min(Len(rp), Len(ip)) |->
            [record |-> rp[k], record_index |-> ip[k], delay |-> delay]]

\* Mutant: the separation stops at the first result that is no success.
RECURSIVE SuccessOf_Leading(_)
SuccessOf_Leading(rs) ==
    IF rs = <<>> \/ ~Head(rs).success THEN <<>>
    ELSE <<Head(rs)>> \o SuccessOf_Leading(Tail(rs))

\* lines 303-308
SuccessOf(rs) == SelectSeq(rs, LAMBDA r : r.success)
FailureOf(rs) == SelectSeq(rs, LAMBDA r : ~r.success)

\* Mutant: the second block tests the success list again.
SaveResponses_SameTest(old, succ, failed) ==
    LET written == (IF succ # <<>> THEN {"success"} ELSE {})
                   \cup (IF succ # <<>> THEN {"failed"} ELSE {})
    IN  [n \in DOMAIN old \cup written |->
            IF n \in written
            THEN (IF n = "success" THEN succ ELSE failed)
            ELSE old[n]]

\* _save_responses: each list is written to its file when it is not empty
SaveResponses(old, succ, failed) ==
    LET written == (IF succ # <<>> THEN {"success"} ELSE {})
                   \cup (IF failed # <<>> THEN {"failed"} ELSE {})
    IN  [n \in DOMAIN old \cup written |->
            IF n \in written
            THEN (IF n = "success" THEN succ ELSE failed)
            ELSE old[n]]

\* The indexes a retry list is drawn from: 0 is below every file, 1 and 2
\* are records of most files, and MaxRecords is beyond every file but the
\* longest.
RetryChoices == {0, 1, 2, MaxRecords}

IdleWorker == [stage |-> "idle", args |-> <<>>, request_id |-> 0, result |-> <<>>,
               slept |-> 0]

Init ==
    /\ call = CallIdle
    /\ \E n \in 0..MaxRecords : all_records = [i \in 1..n |-> DocAt(i)]
    /\ retry_indexes \in {NoRetry}
          \cup {RetryList(l) : l \in SeqsUpTo(RetryChoices, MaxRetryLen)}
    /\ num_processes \in 1..MaxWorkers
    /\ rate_limit_delay \in Delays
    /\ pc = "start"
    /\ record_index_map = <<>>
    /\ records = <<>>
    /\ queue = <<>>
    /\ workers = <<>>
    /\ results = <<>>
    /\ successful_responses = <<>>
    /\ failed_responses = <<>>
    /\ files = <<>>
    /\ ret = <<>>
    /\ issued = <<>>
    /\ warnings = <<>>
    /\ answered = {}
    /\ confirmed = "unasked"
    /\ user_input = <<>>
    /\ uuid = 0
    /\ earlier = NoEarlier
    /\ CsvIdle

\* Mutant: the test len(records) == 0 of line 223 is left out.
SelectRecords_NoEmptyCheck ==
    /\ pc = "start"
    /\ records' = SelectedRecords(retry_indexes, all_records)
    /\ record_index_map' = SelectedIndexes(retry_indexes, all_records)
    /\ warnings' = IF RetryMode(retry_indexes)
                   THEN SkippedIndexes(retry_indexes.list, all_records)
                   ELSE <<>>
    /\ pc' = IF Len(SelectedRecords(retry_indexes, all_records)) > 1
             THEN "test" ELSE "dispatch"
    /\ UNCHANGED <<inputVars, queue, workers, results, successful_responses,
                   failed_responses, files, ret, issued, answered, confirmed,
                   user_input, uuid>>

\* lines 191-227: load, select, and the two early returns
SelectRecords ==
    /\ pc = "start"
    /\ LET recs == SelectedRecords(retry_indexes, all_records)
           map  == SelectedIndexes(retry_indexes, all_records)
       IN  /\ records' = recs
           /\ record_index_map' = map
           /\ warnings' = IF RetryMode(retry_indexes)
                          THEN SkippedIndexes(retry_indexes.list, all_records)
                          ELSE <<>>
           /\ IF Len(recs) = 0
              THEN pc' = "done" /\ ret' = <<0, 0>>
              ELSE /\ pc' = IF Len(recs) > 1 THEN "test" ELSE "dispatch"
                   /\ ret' = ret
    /\ UNCHANGED <<inputVars, queue, workers, results, successful_responses,
                   failed_responses, files, issued, answered, confirmed, user_input, uuid>>

\* Mutant: the pre-flight call numbers its record 1, as test_first_record does.
TestArgs_IndexOne(recs, map) ==
    [record |-> recs[1], record_index |-> 1, delay |-> 0]

\* lines 232-233 and 362: the arguments of the pre-flight call
TestArgs(recs, map) ==
    [record |-> recs[1], record_index |-> map[1], delay |-> 0]

\* What the log keeps of a request handed to the transport.
Issue(args, by) ==
    [record_index |-> args.record_index, record |-> args.record,
     delay |-> SleepTime(args.delay), by |-> by]

\* lines 230-241 with _test_single_record: the first record, sent by the
\* orchestrating thread itself
TestFirstRecord ==
    /\ pc = "test"
    /\ \E outcome \in BatchOutcomes :
          LET args == TestArgs(records, record_index_map)
              result == SendSingleRequest(args, uuid + 1, outcome).result
          IN  /\ issued' = Append(issued, Issue(args, "test"))
              /\ answered' = answered \cup
                     {[request_id |-> uuid + 1, outcome |-> outcome]}
              /\ IF result.success
                 THEN /\ successful_responses' = Append(successful_responses, result)
                      /\ failed_responses' = failed_responses
                 ELSE /\ failed_responses' = Append(failed_responses, result)
                      /\ successful_responses' = successful_responses
    /\ uuid' = uuid + 1
    /\ pc' = "prompt"
    /\ UNCHANGED <<inputVars, record_index_map, records, queue, workers,
                   results, files, ret, warnings, confirmed, user_input>>

\* lines 244-253: the operator answers yes
ConfirmContinue ==
    /\ pc = "prompt"
    /\ \E answer \in Answers : Affirmative(answer) /\ user_input' = answer
    /\ confirmed' = "yes"
    /\ pc' = "dispatch"
    /\ UNCHANGED <<inputVars, record_index_map, records, queue, workers,
                   results, successful_responses, failed_responses, files, ret,
                   issued, warnings, answered, uuid>>

\* lines 244-249: any other answer
Decline ==
    /\ pc = "prompt"
    /\ \E answer \in Answers : ~Affirmative(answer) /\ user_input' = answer
    /\ confirmed' = "no"
    /\ files' = SaveResponses(files, successful_responses, failed_responses)
    /\ ret' = <<Len(successful_responses), Len(failed_responses)>>
    /\ pc' = "done"
    /\ UNCHANGED <<inputVars, record_index_map, records, queue, workers,
                   results, successful_responses, failed_responses, issued,
                   warnings, answered, uuid>>

\* A pool with one worker process for every task slot and one more
Pool_OneMore(processes) == [w \in 1..(processes + 1) |-> IdleWorker]

\* line 286: Pool(processes=num_processes) starts that many worker
\* processes, each of which runs one task at a time
Pool(processes) == [w \in 1..processes |-> IdleWorker]

\* lines 260-286: args_list is built and the pool is created. (The branch
\* len(records_to_process) == 0 of line 261 cannot be taken: a selection of
\* one record is left whole and a longer one loses only its first.)
StartBulk ==
    /\ pc = "dispatch"
    /\ queue' = ArgsList(records, record_index_map, rate_limit_delay)
    /\ workers' = Pool(num_processes)
    /\ results' = <<>>
    /\ pc' = "bulk"
    /\ UNCHANGED <<inputVars, record_index_map, records,
                   successful_responses, failed_responses, files, ret, issued,
                   warnings, answered, confirmed, user_input, uuid>>

\* A pool worker takes the next task and posts it (lines 82-109).
WorkerTake(w) ==
    /\ pc = "bulk"
    /\ workers[w].stage = "idle"
    /\ queue # <<>>
    /\ workers' = [workers EXCEPT ![w] = [stage |-> "inflight", args |-> Head(queue),
                                          request_id |-> uuid + 1,
                                          result |-> <<>>, slept |-> 0]]
    /\ queue' = Tail(queue)
    /\ uuid' = uuid + 1
    /\ issued' = Append(issued, Issue(Head(queue), "pool"))
    /\ UNCHANGED <<inputVars, pc, record_index_map, records, results,
                   successful_responses, failed_responses, files, ret, warnings,
                   answered, confirmed, user_input>>

\* The transport answers the worker's request (lines 111-133).
WorkerRespond(w) ==
    /\ pc = "bulk"
    /\ workers[w].stage = "inflight"
    /\ \E outcome \in BatchOutcomes :
          /\ workers' = [workers EXCEPT ![w] =
                [stage |-> IF SleepTime(workers[w].args.delay) > 0
                           THEN "sleeping" ELSE "ready",
                 slept |-> 0,
                 args |-> workers[w].args,
                 request_id |-> workers[w].request_id,
                 result |-> SendSingleRequest(workers[w].args,
                                              workers[w].request_id,
                                              outcome).result]]
          /\ answered' = answered \cup
                 {[request_id |-> workers[w].request_id, outcome |-> outcome]}
    /\ UNCHANGED <<inputVars, pc, record_index_map, records, queue, results,
                   successful_responses, failed_responses, files, ret, issued,
                   warnings, confirmed, user_input, uuid>>

\* time.sleep(rate_limit_delay) ends (lines 136-137).
WorkerWake(w) ==
    /\ pc = "bulk"
    /\ workers[w].stage = "sleeping"
    /\ workers' = [workers EXCEPT ![w].stage = "ready",
                                  ![w].slept = SleepTime(workers[w].args.delay)]
    /\ UNCHANGED <<inputVars, pc, record_index_map, records, queue, results,
                   successful_responses, failed_responses, files, ret, issued,
                   warnings, answered, confirmed, user_input, uuid>>

\* The worker returns its result and imap_unordered yields it to the loop
\* of lines 288-289.
WorkerReturn(w) ==
    /\ pc = "bulk"
    /\ workers[w].stage = "ready"
    /\ results' = Append(results, workers[w].result)
    /\ workers' = [workers EXCEPT ![w] = IdleWorker]
    /\ UNCHANGED <<inputVars, pc, record_index_map, records, queue,
                   successful_responses, failed_responses, files, ret, issued,
                   warnings, answered, confirmed, user_input, uuid>>

\* lines 297-301: KeyboardInterrupt inside the try block; the pool is
\* terminated and the exception is raised again, so nothing below line 301
\* runs.
Interrupt ==
    /\ pc = "bulk"
    /\ workers' = [w \in DOMAIN workers |-> IdleWorker]
    /\ queue' = <<>>
    /\ pc' = "interrupted"
    /\ UNCHANGED <<inputVars, record_index_map, records, results,
                   successful_responses, failed_responses, files, ret, issued,
                   warnings, answered, confirmed, user_input, uuid>>

\* The loop of lines 288-289 left as soon as one result has been yielded
AllCollected_AfterFirst == results # <<>>

\* lines 288-289: the loop over pool.imap_unordered ends when every task of
\* args_list has yielded its result
AllCollected ==
    Len(results) = Len(ArgsList(records, record_index_map, rate_limit_delay))

\* The end of the run without the call of line 316
FinishBatch_NoSave ==
    /\ pc = "bulk"
    /\ AllCollected
    /\ successful_responses' = successful_responses \o SuccessOf(results)
    /\ failed_responses' = failed_responses \o FailureOf(results)
    /\ ret' = <<Len(successful_responses'), Len(failed_responses')>>
    /\ pc' = "done"
    /\ UNCHANGED <<inputVars, record_index_map, records, queue, workers, files,
                   results, issued, warnings, answered, confirmed, user_input, uuid>>

\* lines 303-327: every task has yielded its result
FinishBatch ==
    /\ pc = "bulk"
    /\ AllCollected
    /\ LET succ == successful_responses \o SuccessOf(results)
           failed == failed_responses \o FailureOf(results)
       IN  /\ successful_responses' = succ
           /\ failed_responses' = failed
           /\ files' = SaveResponses(files, succ, failed)
           /\ ret' = <<Len(succ), Len(failed)>>
    /\ pc' = "done"
    /\ UNCHANGED <<inputVars, record_index_map, records, queue, workers,
                   results, issued, warnings, answered, confirmed, user_input, uuid>>

Next ==
    \/ SelectRecords
    \/ TestFirstRecord
    \/ ConfirmContinue
    \/ Decline
    \/ StartBulk
    \/ \E w \in DOMAIN workers : WorkerTake(w)
    \/ \E w \in DOMAIN workers : WorkerRespond(w)
    \/ \E w \in DOMAIN workers : WorkerWake(w)
    \/ \E w \in DOMAIN workers : WorkerReturn(w)
    \/ Interrupt
    \/ FinishBatch

Spec == Init /\ [][Next]_vars

\* The run under the conditions that make it progress: the orchestrating
\* thread runs on, the operator answers the prompt, every request gets its
\* response or its exception (requests.post has timeout=30), a sleep ends,
\* and the pool hands a queued task to an idle worker and a returned result
\* to the loop. Nothing forces or forbids the interrupt.
Fairness ==
    /\ WF_vars(SelectRecords)
    /\ WF_vars(TestFirstRecord)
    /\ WF_vars(ConfirmContinue \/ Decline)
    /\ WF_vars(StartBulk)
    /\ WF_vars(FinishBatch)
    /\ \A w \in 1..MaxWorkers :
          /\ WF_vars(w \in DOMAIN workers /\ WorkerTake(w))
          /\ WF_vars(w \in DOMAIN workers /\ WorkerRespond(w))
          /\ WF_vars(w \in DOMAIN workers /\ WorkerWake(w))
          /\ WF_vars(w \in DOMAIN workers /\ WorkerReturn(w))

\* The runs whose progress is followed: over the whole file, and in retry
\* mode over its second and first record, in that order
InitLive == Init /\ retry_indexes \in {NoRetry, RetryList(<<2, 1>>)}

SpecLive == InitLive /\ [][Next]_vars /\ Fairness

-----------------------------------------------------------------------------
(* SpecRetry: a run of send_batch, then a second process started with       *)
(* --retry-failed on the failure file the first run wrote                   *)

\* An insertion that drops a value the list already holds
RECURSIVE InsertSorted_Unique(_, _)
InsertSorted_Unique(x, s) ==
    IF s = <<>> THEN <<x>>
    ELSE IF x = Head(s) THEN s
    ELSE IF x < Head(s) THEN <<x>> \o s
         ELSE <<Head(s)>> \o InsertSorted_Unique(x, Tail(s))

\* sorted(), by insertion
RECURSIVE InsertSorted(_, _)
InsertSorted(x, s) ==
    IF s = <<>> THEN <<x>>
    ELSE IF x <= Head(s) THEN <<x>> \o s
         ELSE <<Head(s)>> \o InsertSorted(x, Tail(s))

RECURSIVE Sorted(_)
Sorted(s) == IF s = <<>> THEN <<>> ELSE InsertSorted(Head(s), Sorted(Tail(s)))

\* What a later process reads of a response file: the record_index of each
\* entry, in the order of the file.
Entries(list) == [k \in 1..Len(list) |-> [record_index |-> list[k].record_index]]

\* Mutant: the position of the entry in the file instead of its record_index.
ExtractFailedIndexes_Position(failed_records) ==
    Sorted([k \in 1..Len(failed_records) |-> k])

\* extract_failed_indexes
ExtractFailedIndexes(failed_records) ==
    Sorted([k \in 1..Len(failed_records) |-> failed_records[k].record_index])

\* main.py lines 269-282 in a new process: the failure file of the run that
\* has ended is read, and send_batch starts over the same JSON file with the
\* extracted list; the sender of the new process is freshly constructed.
RetryFailed ==
    /\ pc = "done"
    /\ ~earlier.given
    /\ "failed" \in DOMAIN files
    /\ earlier' = [given |-> TRUE,
                   files |-> [n \in DOMAIN files |-> Entries(files[n])]]
    /\ retry_indexes' = RetryList(ExtractFailedIndexes(Entries(files["failed"])))
    /\ pc' = "start"
    /\ record_index_map' = <<>>
    /\ records' = <<>>
    /\ queue' = <<>>
    /\ workers' = <<>>
    /\ results' = <<>>
    /\ successful_responses' = <<>>
    /\ failed_responses' = <<>>
    /\ files' = <<>>
    /\ ret' = <<>>
    /\ issued' = <<>>
    /\ warnings' = <<>>
    /\ answered' = {}
    /\ confirmed' = "unasked"
    /\ user_input' = <<>>
    /\ uuid' = 0
    /\ UNCHANGED <<call, all_records, num_processes, rate_limit_delay, csvVars>>

NextRetry == Next \/ RetryFailed

\* The first run is any run of Spec with the largest pool and a rate-limit
\* delay: a smaller pool completes its tasks in a subset of the orders of a
\* larger one, and the delay changes no result.
InitRetry ==
    /\ Init
    /\ num_processes = MaxWorkers
    /\ rate_limit_delay = 1

SpecRetry == InitRetry /\ [][NextRetry]_vars

\* send_batch is called once more on the sender that has run a batch, on
\* the same file with the same arguments: the two lists __init__ made
\* (lines 176-177) are those of the sender and send_batch assigns them
\* nowhere; all the rest is local to the call. The files of the run that
\* has ended stay where they are.
SendBatchAgain ==
    /\ pc = "done"
    /\ ~earlier.given
    /\ earlier' = [given |-> TRUE,
                   files |-> [n \in DOMAIN files |-> Entries(files[n])]]
    /\ pc' = "start"
    /\ record_index_map' = <<>>
    /\ records' = <<>>
    /\ queue' = <<>>
    /\ workers' = <<>>
    /\ results' = <<>>
    /\ files' = <<>>
    /\ ret' = <<>>
    /\ issued' = <<>>
    /\ warnings' = <<>>
    /\ answered' = {}
    /\ confirmed' = "unasked"
    /\ user_input' = <<>>
    /\ uuid' = 0
    /\ UNCHANGED <<call, all_records, retry_indexes, num_processes,
                   rate_limit_delay, successful_responses, failed_responses,
                   csvVars>>

NextReuse == Next \/ SendBatchAgain

SpecReuse == InitRetry /\ [][NextReuse]_vars

-----------------------------------------------------------------------------
(* validator.py. Field names and cell values are lists of characters.       *)

\* A rule of the rule file. keys is the set of keys the rule's object holds;
\* a field whose key is absent is never read.
NoPattern == [classes |-> <<>>, whole |-> FALSE]

\* dependsOn is a list of field names; dependsOnIsStr tells that the rule
\* file holds a single name, not a list. message is a list of tokens.
NoCond == [keys |-> {}, dependsOn |-> <<>>, dependsOnIsStr |-> FALSE,
           whenNotIn |-> <<>>, whenAnyPresent |-> FALSE, message |-> <<>>]

BaseRule(name) ==
    [name |-> name, keys |-> {}, required |-> FALSE, type |-> "string",
     conditionalRequired |-> NoCond, minLength |-> 0, maxLength |-> 0,
     pattern |-> NoPattern, min |-> 0, max |-> 0, values |-> <<>>,
     itemPattern |-> NoPattern, enumValues |-> <<>>, description |-> <<>>]

\* rule.get('required', False)
IsRequired(rule) == "required" \in rule.keys /\ rule.required

\* rule.get('type', 'string')
TypeOf(rule) == IF "type" \in rule.keys THEN rule.type ELSE "string"

\* self.rules.keys()
FieldNames(rs) == {rs[k].name : k \in 1..Len(rs)}

\* header_lower in field_lower
Contains(hay, needle) ==
    \E i \in 0..(Len(hay) - Len(needle)) :
        SubSeq(hay, i + 1, i + Len(needle)) = needle

Min3(a, b, c) == Min(a, Min(b, c))

\* lines 469-476: one row of the distance table, from the row before it
RECURSIVE CurrentRow(_, _, _, _)
CurrentRow(c1, s2, previous_row, current_row) ==
    IF Len(current_row) = Len(s2) + 1 THEN current_row
    ELSE LET n == Len(current_row)
             insertions == previous_row[n + 1] + 1
             deletions == current_row[n] + 1
             substitutions == previous_row[n] + (IF c1 # s2[n] THEN 1 ELSE 0)
         IN  CurrentRow(c1, s2, previous_row,
                        Append(current_row,
                               Min3(insertions, deletions, substitutions)))

RECURSIVE LastRow(_, _, _, _)
LastRow(s1, s2, i, previous_row) ==
    IF i > Len(s1) THEN previous_row
    ELSE LastRow(s1, s2, i + 1, CurrentRow(s1[i], s2, previous_row, <<i>>))

\* _levenshtein_distance
RECURSIVE LevenshteinDistance(_, _)
LevenshteinDistance(s1, s2) ==
    IF Len(s1) < Len(s2) THEN LevenshteinDistance(s2, s1)
    ELSE IF Len(s2) = 0 THEN Len(s1)
    ELSE LET row == LastRow(s1, s2, 1, [k \in 1..(Len(s2) + 1) |-> k - 1])
         IN  row[Len(row)]

SuggestDistance == 2        \* _levenshtein_distance(...) <= 2

\* lines 447-456: the test a known field passes to be suggested
Similar(header, field) ==
    \/ Contains(Lower(field), Lower(header))
    \/ Contains(Lower(header), Lower(field))
    \/ LevenshteinDistance(Lower(header), Lower(field)) <= SuggestDistance

\* _find_similar_fields. known_fields is a set of strings, which the loop
\* of line 449 goes through in an order that differs from process to
\* process; order is that order.
FindSimilarFields(header, order, max_suggestions) ==
    LET suggestions == SelectSeq(order, LAMBDA f : Similar(header, f))
    IN  SubSeq(suggestions, 1, Min(max_suggestions, Len(suggestions)))

\* The orders a set can be gone through in.
Orders(S) ==
    {o \in [1..Cardinality(S) -> S] : \A i, j \in DOMAIN o : i # j => o[i] # o[j]}

\* lines 101-104
MissingHeaderErrors(rs, hs) ==
    LET missing == SelectSeq(rs, LAMBDA rule :
                       IsRequired(rule) /\ rule.name \notin Range(hs))
    IN  [k \in 1..Len(missing) |->
            [kind |-> "Missing required header", header |-> missing[k].name,
             suggestion |-> <<>>]]

\* line 109: if header and header not in known_fields
IsReported(header, known_fields) == header # <<>> /\ header \notin known_fields

\* lines 108-117
UnknownHeaderErrors(rs, hs, order) ==
    LET unknown == SelectSeq(hs, LAMBDA h : IsReported(h, FieldNames(rs)))
    IN  [k \in 1..Len(unknown) |->
            [kind |-> "Unknown header", header |-> unknown[k],
             suggestion |-> FindSimilarFields(unknown[k], order, 1)]]

\* validate_headers, for one order of the set known_fields
ValidateHeadersIn(rs, hs, order) ==
    MissingHeaderErrors(rs, hs) \o UnknownHeaderErrors(rs, hs, order)

\* The parts of a message: literal text, a cell value, a number.
Lit(text) == [lit |-> text, chars |-> <<>>, num |-> 0]
Val(value) == [lit |-> "", chars |-> value, num |-> 0]
Num(n) == [lit |-> "", chars |-> <<>>, num |-> n]

\* The token {value} of a conditional message
ValueToken == Lit("{value}")

\* message.replace('{value}', depends_on_value)
ReplaceValue(message, value) ==
    [k \in 1..Len(message) |->
        IF message[k] = ValueToken THEN Val(value) ELSE message[k]]

\* ValidationError; message is f"{field_name}: " followed by text
Error(row_num, field_name, error_type, text) ==
    [row_number |-> row_num, field |-> field_name, error_type |-> error_type,
     message |-> [field |-> field_name, text |-> text]]

\* csv.DictReader: a row with fewer cells than the header line has None for
\* the cells it lacks, and a row with more has them all, as a list, under
\* the key None. Neither is a string; what the list holds is never read.
NoneCell == <<None>>
ListCell == <<"list">>
RestKey == <<None>>

\* row.get(field_name, "").strip() raises AttributeError: the cell is None
CellRaises(row, field_name) ==
    field_name \in DOMAIN row /\ row[field_name] = NoneCell

\* row.get(field_name, "").strip()
CellOf(row, field_name) ==
    IF field_name \in DOMAIN row THEN Strip(row[field_name]) ELSE <<>>

\* Mutant: the test of line 237 the other way round.
DependencyFires_WhenIn(cond, row) ==
    CellOf(row, cond.dependsOn[1]) \in
        Range(IF "whenNotIn" \in cond.keys THEN cond.whenNotIn ELSE <<>>)

\* lines 232-237: depends_on_value not in when_not_in
DependencyFires(cond, row) ==
    CellOf(row, cond.dependsOn[1]) \notin
        Range(IF "whenNotIn" \in cond.keys THEN cond.whenNotIn ELSE <<>>)

\* all() in the place of any()
AnyPresent_All(cond, row) ==
    \A k \in 1..Len(cond.dependsOn) : CellOf(row, cond.dependsOn[k]) # <<>>

\* line 254: any(row.get(f, "").strip() for f in depends_on_fields)
AnyPresent(cond, row) ==
    \E k \in 1..Len(cond.dependsOn) : CellOf(row, cond.dependsOn[k]) # <<>>

\* _check_conditional_required: the errors (no warning is ever added)
CheckConditionalRequired(row_num, field_name, value, rule, row) ==
    LET cond == rule.conditionalRequired
    IN  IF "dependsOn" \in cond.keys /\ cond.dependsOnIsStr
        THEN IF DependencyFires(cond, row) /\ value = <<>>
             THEN <<Error(row_num, field_name, "conditional_required",
                          ReplaceValue(IF "message" \in cond.keys
                                       THEN cond.message ELSE <<>>,
                                       CellOf(row, cond.dependsOn[1])))>>
             ELSE <<>>
        ELSE IF "dependsOn" \in cond.keys
        THEN IF /\ "whenAnyPresent" \in cond.keys /\ cond.whenAnyPresent
                /\ AnyPresent(cond, row) /\ value = <<>>
             THEN <<Error(row_num, field_name, "conditional_required",
                          IF "message" \in cond.keys THEN cond.message
                          ELSE <<Lit("Required based on other fields")>>)>>
             ELSE <<>>
        ELSE <<>>

\* re.match(pattern, value) for the patterns of the model: one class of
\* characters per position from the start of the value, and with whole a $
\* after the last one.
Matches(pattern, value) ==
    /\ Len(value) >= Len(pattern.classes)
    /\ \A k \in 1..Len(pattern.classes) : value[k] \in pattern.classes[k]
    /\ pattern.whole => Len(value) = Len(pattern.classes)

\* if pattern: (an absent key and the empty pattern are both falsy)
HasPattern(rule, key) == key \in rule.keys /\ rule[key].classes # <<>>

\* _validate_string
ValidateString(row_num, field_name, value, rule) ==
    (IF "minLength" \in rule.keys /\ rule.minLength # 0
        /\ Len(value) < rule.minLength
     THEN <<Error(row_num, field_name, "length_validation",
                  <<Lit("Minimum length is"), Num(rule.minLength)>>)>>
     ELSE <<>>)
    \o (IF "maxLength" \in rule.keys /\ rule.maxLength # 0
           /\ Len(value) > rule.maxLength
        THEN <<Error(row_num, field_name, "length_validation",
                     <<Lit("Maximum length is"), Num(rule.maxLength)>>)>>
        ELSE <<>>)
    \o (IF HasPattern(rule, "pattern") /\ ~Matches(rule.pattern, value)
        THEN <<Error(row_num, field_name, "pattern_mismatch",
                     IF "description" \in rule.keys THEN rule.description
                     ELSE <<Lit("Invalid format")>>)>>
        ELSE <<>>)

Digits == {"0", "1", "2", "3", "4", "5", "6", "7", "8", "9"}

DigitValue(c) ==
    CASE c = "0" -> 0 [] c = "1" -> 1 [] c = "2" -> 2 [] c = "3" -> 3
      [] c = "4" -> 4 [] c = "5" -> 5 [] c = "6" -> 6 [] c = "7" -> 7
      [] c = "8" -> 8 [] c = "9" -> 9

\* The literals int() accepts once the sign is taken off: digits, with
\* single underscores between them.
IsDigitString(s) ==
    /\ s # <<>>
    /\ \A k \in 1..Len(s) : s[k] \in Digits \cup {"_"}
    /\ s[1] \in Digits /\ s[Len(s)] \in Digits
    /\ \A k \in 1..(Len(s) - 1) : ~(s[k] = "_" /\ s[k + 1] = "_")

HasSign(value) == value # <<>> /\ Head(value) \in {"+", "-"}

Unsigned(value) == IF HasSign(value) THEN Tail(value) ELSE value

\* int(value) does not raise ValueError
ParsesAsInt(value) == IsDigitString(Unsigned(value))

RECURSIVE DigitsValue(_, _)
DigitsValue(s, acc) ==
    IF s = <<>> THEN acc
    ELSE IF Head(s) = "_" THEN DigitsValue(Tail(s), acc)
    ELSE DigitsValue(Tail(s), 10 * acc + DigitValue(Head(s)))

\* int(value)
IntOf(value) ==
    IF Head(value) = "-" THEN 0 - DigitsValue(Unsigned(value), 0)
    ELSE DigitsValue(Unsigned(value), 0)

\* Mutant: the bounds themselves are refused.
ValidateInteger_Exclusive(row_num, field_name, value, rule) ==
    IF ~ParsesAsInt(value)
    THEN <<Error(row_num, field_name, "type_validation",
                 <<Lit("Must be a valid integer")>>)>>
    ELSE (IF "min" \in rule.keys /\ IntOf(value) <= rule.min
          THEN <<Error(row_num, field_name, "range_validation",
                       <<Lit("Minimum value is"), Num(rule.min)>>)>>
          ELSE <<>>)
         \o (IF "max" \in rule.keys /\ IntOf(value) >= rule.max
             THEN <<Error(row_num, field_name, "range_validation",
                          <<Lit("Maximum value is"), Num(rule.max)>>)>>
             ELSE <<>>)

\* _validate_integer
ValidateInteger(row_num, field_name, value, rule) ==
    IF ~ParsesAsInt(value)
    THEN <<Error(row_num, field_name, "type_validation",
                 <<Lit("Must be a valid integer")>>)>>
    ELSE (IF "min" \in rule.keys /\ IntOf(value) < rule.min
          THEN <<Error(row_num, field_name, "range_validation",
                       <<Lit("Minimum value is"), Num(rule.min)>>)>>
          ELSE <<>>)
         \o (IF "max" \in rule.keys /\ IntOf(value) > rule.max
             THEN <<Error(row_num, field_name, "range_validation",
                          <<Lit("Maximum value is"), Num(rule.max)>>)>>
             ELSE <<>>)

LitTrue == <<"t", "r", "u", "e">>
LitFalse == <<"f", "a", "l", "s", "e">>

\* _validate_boolean
ValidateBoolean(row_num, field_name, value, rule) ==
    IF Lower(value) \notin {LitTrue, LitFalse}
    THEN <<Error(row_num, field_name, "type_validation",
                 <<Lit("Must be 'true' or 'false'")>>)>>
    ELSE <<>>

\* ', '.join(allowed_values)
Joined(values) == [k \in 1..Len(values) |-> Val(values[k])]

\* _validate_enum
ValidateEnum(row_num, field_name, value, rule) ==
    LET allowed_values == IF "values" \in rule.keys THEN rule.values ELSE <<>>
    IN  IF value \notin Range(allowed_values)
        THEN <<Error(row_num, field_name, "enum_validation",
                     <<Lit("Must be one of:")>> \o Joined(allowed_values))>>
        ELSE <<>>

\* value.split(delim)
RECURSIVE SplitOn(_, _)
SplitOn(value, delim) ==
    IF delim \notin Range(value) THEN <<value>>
    ELSE LET i == CHOOSE k \in 1..Len(value) :
                      value[k] = delim /\ \A j \in 1..(k - 1) : value[j] # delim
         IN  <<SubSeq(value, 1, i - 1)>>
                 \o SplitOn(SubSeq(value, i + 1, Len(value)), delim)

\* [item.strip() for item in parts if item.strip()]
StrippedItems(parts) ==
    SelectSeq([k \in 1..Len(parts) |-> Strip(parts[k])], LAMBDA item : item # <<>>)

\* _split_array_value
SplitArrayValue(value) ==
    IF "|" \in Range(value) THEN StrippedItems(SplitOn(value, "|"))
    ELSE IF "," \in Range(value) THEN StrippedItems(SplitOn(value, ","))
    ELSE IF Strip(value) # <<>> THEN <<Strip(value)>> ELSE <<>>

\* _validate_array
ValidateArray(row_num, field_name, value, rule) ==
    LET items == SplitArrayValue(value)
        badPattern == IF HasPattern(rule, "itemPattern")
                      THEN SelectSeq(items, LAMBDA item :
                                        ~Matches(rule.itemPattern, item))
                      ELSE <<>>
        badEnum == IF "enumValues" \in rule.keys /\ rule.enumValues # <<>>
                   THEN SelectSeq(items, LAMBDA item :
                                     item \notin Range(rule.enumValues))
                   ELSE <<>>
    IN  [k \in 1..Len(badPattern) |->
            Error(row_num, field_name, "pattern_mismatch",
                  <<Lit("Item"), Val(badPattern[k])>>
                      \o (IF "description" \in rule.keys THEN rule.description
                          ELSE <<Lit("Invalid format")>>))]
        \o [k \in 1..Len(badEnum) |->
              Error(row_num, field_name, "enum_validation",
                    <<Lit("Item"), Val(badEnum[k]), Lit("must be one of:")>>
                        \o Joined(rule.enumValues))]

\* _validate_field
ValidateField(row_num, field_name, value, rule) ==
    CASE TypeOf(rule) = "string" -> ValidateString(row_num, field_name, value, rule)
      [] TypeOf(rule) = "integer" -> ValidateInteger(row_num, field_name, value, rule)
      [] TypeOf(rule) = "boolean" -> ValidateBoolean(row_num, field_name, value, rule)
      [] TypeOf(rule) = "enum" -> ValidateEnum(row_num, field_name, value, rule)
      [] TypeOf(rule) = "array" -> ValidateArray(row_num, field_name, value, rule)
      [] OTHER -> <<>>

\* lines 177-185: the errors of the conditional check of a field
CondErrors(row_num, rule, row) ==
    IF "conditionalRequired" \in rule.keys
    THEN CheckConditionalRequired(row_num, rule.name, CellOf(row, rule.name),
                                  rule, row)
    ELSE <<>>

\* lines 191-208: the checks after the conditional one
PlainErrors(row_num, rule, row) ==
    LET value == CellOf(row, rule.name)
    IN  IF IsRequired(rule) /\ value = <<>>
        THEN <<Error(row_num, rule.name, "required_field",
                     <<Lit("Field is required")>>)>>
        ELSE IF value = <<>> THEN <<>>
        ELSE ValidateField(row_num, rule.name, value, rule)

\* Mutant: no continue after a conditional error (lines 188-189 left out).
FieldErrors_NoSkip(row_num, rule, row) ==
    CondErrors(row_num, rule, row) \o PlainErrors(row_num, rule, row)

\* lines 177-208: one turn of the loop over the rules
FieldErrors(row_num, rule, row) ==
    IF CondErrors(row_num, rule, row) # <<>>
    THEN CondErrors(row_num, rule, row)
    ELSE PlainErrors(row_num, rule, row)

\* _validate_row: the errors of the rules from the k-th on
RECURSIVE ValidateRowFrom(_, _, _, _)
ValidateRowFrom(row_num, row, rs, k) ==
    IF k > Len(rs) THEN <<>>
    ELSE FieldErrors(row_num, rs[k], row) \o ValidateRowFrom(row_num, row, rs, k + 1)

ValidateRow(row_num, row, rs) == ValidateRowFrom(row_num, row, rs, 1)

\* lines 136-141: all_errors, for the rows from the idx-th on
RECURSIVE AllErrorsFrom(_, _, _)
AllErrorsFrom(rws, rs, idx) ==
    IF idx > Len(rws) THEN <<>>
    ELSE ValidateRow(idx, rws[idx], rs) \o AllErrorsFrom(rws, rs, idx + 1)

\* A summary that counts the errors and the warnings, not their rows
BuildSummary_PerError(total_rows, rows_with_errors, rows_with_warnings, errs, warns) ==
    [total_rows |-> total_rows,
     valid_rows |-> total_rows - Len(errs),
     invalid_rows |-> Len(errs),
     rows_with_warnings |-> Len(warns),
     error_breakdown |->
         [key \in {e.message : e \in Range(errs)} |->
             Cardinality({k \in 1..Len(errs) : errs[k].message = key})],
     warning_breakdown |->
         [key \in {w.message : w \in Range(warns)} |->
             Cardinality({k \in 1..Len(warns) : warns[k].message = key})]]

\* _build_summary; a key of a breakdown is the field and the message after
\* the first ": ", which is the text that follows the field name
BuildSummary(total_rows, rows_with_errors, rows_with_warnings, errs, warns) ==
    [total_rows |-> total_rows,
     valid_rows |-> total_rows - Cardinality(rows_with_errors),
     invalid_rows |-> Cardinality(rows_with_errors),
     rows_with_warnings |-> Cardinality(rows_with_warnings),
     error_breakdown |->
         [key \in {e.message : e \in Range(errs)} |->
             Cardinality({k \in 1..Len(errs) : errs[k].message = key})],
     warning_breakdown |->
         [key \in {w.message : w \in Range(warns)} |->
             Cardinality({k \in 1..Len(warns) : warns[k].message = key})]]

\* lines 232 and 254: the reads of the dependencies raise. any() stops at
\* the first dependency that is not empty.
ConditionRaises(cond, row) ==
    IF "dependsOn" \in cond.keys /\ cond.dependsOnIsStr
    THEN CellRaises(row, cond.dependsOn[1])
    ELSE /\ "dependsOn" \in cond.keys
         /\ "whenAnyPresent" \in cond.keys /\ cond.whenAnyPresent
         /\ \E j \in 1..Len(cond.dependsOn) :
               /\ CellRaises(row, cond.dependsOn[j])
               /\ \A i \in 1..(j - 1) :
                     /\ ~CellRaises(row, cond.dependsOn[i])
                     /\ CellOf(row, cond.dependsOn[i]) = <<>>

\* _validate_row raises AttributeError: line 177 reads the cell of every
\* rule, and the conditional check those of its dependencies
RowRaises(row, rs) ==
    \E k \in 1..Len(rs) :
        \/ CellRaises(row, rs[k].name)
        \/ /\ "conditionalRequired" \in rs[k].keys
           /\ ConditionRaises(rs[k].conditionalRequired, row)

\* validate_rows raises: it catches nothing
ValidateRowsRaises(rws, rs) == \E idx \in 1..Len(rws) : RowRaises(rws[idx], rs)

\* validate_rows; the result is built without its header_errors, which so
\* keep their default, the empty list. raised tells that no result was
\* returned.
ValidateRows(rws, rs) ==
    IF ValidateRowsRaises(rws, rs)
    THEN [raised |-> "AttributeError", errors |-> <<>>, warnings |-> <<>>,
          summary |-> BuildSummary(0, {}, {}, <<>>, <<>>),
          header_errors |-> <<>>]
    ELSE
    LET all_errors == AllErrorsFrom(rws, rs, 1)
        rows_with_errors == {idx \in 1..Len(rws) :
                                ValidateRow(idx, rws[idx], rs) # <<>>}
    IN  [raised |-> None,
         errors |-> all_errors,
         warnings |-> <<>>,
         summary |-> BuildSummary(Len(rws), rows_with_errors, {}, all_errors, <<>>),
         header_errors |-> <<>>]

\* ValidationResult.is_valid
IsValid(res) == Len(res.errors) = 0 /\ Len(res.header_errors) = 0

-----------------------------------------------------------------------------
(* converter.py. A document is a function from the paths of its leaves, as  *)
(* lists of keys, to their values.                                          *)

\* The values of a document's leaves
StrValue(value) == [type |-> "str", chars |-> value, num |-> 0, bool |-> FALSE,
                    items |-> <<>>]
IntValue(n) == [type |-> "int", chars |-> <<>>, num |-> n, bool |-> FALSE,
                items |-> <<>>]
BoolValue(b) == [type |-> "bool", chars |-> <<>>, num |-> 0, bool |-> b,
                 items |-> <<>>]
ListValue(items) == [type |-> "list", chars |-> <<>>, num |-> 0, bool |-> FALSE,
                     items |-> items]

\* self.rules.get(field_name, {})
RuleFor(rs, field_name) ==
    IF field_name \in FieldNames(rs)
    THEN rs[CHOOSE k \in 1..Len(rs) : rs[k].name = field_name]
    ELSE BaseRule(field_name)

\* _convert_value raises ValueError: int() of a value that is no integer
ConvertRaises(value, rule) == TypeOf(rule) = "integer" /\ ~ParsesAsInt(value)

\* Mutant: the comma is looked for before the pipe.
ParseArray_CommaFirst(value) ==
    IF "," \in Range(value) THEN StrippedItems(SplitOn(value, ","))
    ELSE IF "|" \in Range(value) THEN StrippedItems(SplitOn(value, "|"))
    ELSE IF Strip(value) # <<>> THEN <<Strip(value)>> ELSE <<>>

\* _parse_array, lines 110-118
ParseArray(value) ==
    LET items == IF "|" \in Range(value)
                 THEN StrippedItems(SplitOn(value, "|"))
                 ELSE IF "," \in Range(value)
                 THEN StrippedItems(SplitOn(value, ","))
                 ELSE IF Strip(value) # <<>> THEN <<Strip(value)>> ELSE <<>>
    IN  items

\* _convert_value, where it does not raise
ConvertValue(value, rule) ==
    CASE TypeOf(rule) = "integer" -> IntValue(IntOf(value))
      [] TypeOf(rule) = "boolean" -> BoolValue(Lower(value) = LitTrue)
      [] TypeOf(rule) = "array" -> ListValue(ParseArray(value))
      [] OTHER -> StrValue(value)

IsPrefix(p, q) == Len(p) <= Len(q) /\ SubSeq(q, 1, Len(p)) = p

\* _set_nested_value raises TypeError: the walk of lines 137-140 comes upon
\* a leaf where it needs a mapping
SetRaises(obj, path) ==
    \E p \in DOMAIN obj : Len(p) < Len(path) /\ IsPrefix(p, path)

\* _set_nested_value, where it does not raise: the leaf is set, in place of
\* whatever mapping was at its path
SetNestedValue(obj, path, value) ==
    LET kept == {p \in DOMAIN obj : ~IsPrefix(path, p)}
    IN  [p \in kept \cup {path} |-> IF p = path THEN value ELSE obj[p]]

\* path.split('.')
PathOf(field_name) == SplitOn(field_name, ".")

\* row.items(): the columns of the row in the order of the header line
RECURSIVE ColumnsOf(_, _)
ColumnsOf(hs, seen) ==
    IF hs = <<>> THEN <<>>
    ELSE IF Head(hs) \in seen THEN ColumnsOf(Tail(hs), seen)
    ELSE <<Head(hs)>> \o ColumnsOf(Tail(hs), seen \cup {Head(hs)})

NoDocument == [raised |-> None, doc |-> <<>>]

\* lines 56-70: the loop of _convert_row over the columns that are left
RECURSIVE ConvertColumns(_, _, _, _)
ConvertColumns(row, cols, rs, acc) ==
    IF cols = <<>> \/ acc.raised # None THEN acc
    ELSE LET field_name == Head(cols)
             value == Strip(row[field_name])
             rule == RuleFor(rs, field_name)
         IN  IF row[field_name] \in {NoneCell, ListCell}
             THEN [acc EXCEPT !.raised = "AttributeError"]
             ELSE IF value = <<>> THEN ConvertColumns(row, Tail(cols), rs, acc)
             ELSE IF ConvertRaises(value, rule)
             THEN [acc EXCEPT !.raised = "ValueError"]
             ELSE IF SetRaises(acc.doc, PathOf(field_name))
             THEN [acc EXCEPT !.raised = "TypeError"]
             ELSE ConvertColumns(row, Tail(cols), rs,
                      [acc EXCEPT !.doc = SetNestedValue(acc.doc, PathOf(field_name),
                                                         ConvertValue(value, rule))])

\* _convert_row; the key None, if the row has it, comes last
ConvertRow(row, hs, rs) ==
    ConvertColumns(row,
                   SelectSeq(ColumnsOf(hs, {}), LAMBDA h : h \in DOMAIN row)
                       \o (IF RestKey \in DOMAIN row THEN <<RestKey>> ELSE <<>>),
                   rs, NoDocument)

\* csv_to_json: the documents of the rows, or the exception of the first
\* row whose conversion raises
RECURSIVE CsvToJsonFrom(_, _, _, _, _)
CsvToJsonFrom(rws, hs, rs, k, json_objects) ==
    IF k > Len(rws) THEN [raised |-> None, json_objects |-> json_objects]
    ELSE LET c == ConvertRow(rws[k], hs, rs)
         IN  IF c.raised # None
             THEN [raised |-> c.raised, json_objects |-> json_objects]
             ELSE CsvToJsonFrom(rws, hs, rs, k + 1, Append(json_objects, c.doc))

\* Mutant: json_objects is kept from one call to the next.
CsvToJson_Accumulating(rws, hs, rs) ==
    CsvToJsonFrom(rws, hs, rs, 1,
                  IF vpc = "end" THEN json_data.json_objects ELSE <<>>)

\* line 34: json_objects = [] at each call
CsvToJson(rws, hs, rs) == CsvToJsonFrom(rws, hs, rs, 1, <<>>)

-----------------------------------------------------------------------------
(* SpecValidate: a caller runs validate_headers, validate_rows and          *)
(* csv_to_json, in this order, on a rule file and a CSV file                *)

\* Field names: c.k stands for config.kybLevel, b.t for business.taxId
kybLevel == <<"c", ".", "k">>
taxId == <<"b", ".", "t">>
notes == <<"n">>

\* Cell values
basic == <<"b", "a", "s", "i", "c">>
enhanced == <<"e", "n", "h", "a", "n", "c", "e", "d">>

\* {"type": "enum", "values": ["basic", "enhanced"], "required": true}
KybRule ==
    [BaseRule(kybLevel) EXCEPT !.keys = {"type", "values", "required"},
                               !.type = "enum", !.values = <<basic, enhanced>>,
                               !.required = TRUE]

\* The conditionalRequired objects of the model: none, a single dependency
\* on c.k unless it is basic, and a list of dependencies with
\* whenAnyPresent true or false.
SingleCond ==
    [NoCond EXCEPT !.keys = {"dependsOn", "whenNotIn", "message"},
                   !.dependsOn = <<kybLevel>>, !.dependsOnIsStr = TRUE,
                   !.whenNotIn = <<basic>>,
                   !.message = <<Lit("required unless basic, level is"), ValueToken>>]

MultiCond(any) ==
    [NoCond EXCEPT !.keys = {"dependsOn", "whenAnyPresent"},
                   !.dependsOn = <<kybLevel, notes>>, !.whenAnyPresent = any]

Conds == {NoCond, SingleCond, MultiCond(TRUE), MultiCond(FALSE)}

\* The rules for b.t: a string of at least two characters or an integer,
\* required or not, with one of the conditions.
TaxRule(type, required, cond) ==
    [BaseRule(taxId) EXCEPT
        !.keys = {"type", "minLength"}
                    \cup (IF required THEN {"required"} ELSE {})
                    \cup (IF cond # NoCond THEN {"conditionalRequired"} ELSE {}),
        !.type = type, !.minLength = 2, !.required = required,
        !.conditionalRequired = cond]

RuleSets ==
    {<<KybRule, TaxRule(type, required, cond)>> :
        type \in {"string", "integer"}, required \in BOOLEAN, cond \in Conds}

\* Header lines: the fields of the rule file, one of them missing, and
\* columns the rule file does not know: close to one field, close to two,
\* close to none, differing in case only, and with no name at all.
HeaderLists ==
    {<<kybLevel, taxId>>,
     <<taxId>>,
     <<kybLevel, taxId, notes>>,
     <<kybLevel, <<"b", ".", "t", "x">>>>,
     <<kybLevel, <<"c", ".", "t">>>>,
     <<kybLevel, taxId, <<"z", "z", "z", "z", "z", "z">>>>,
     <<kybLevel, <<"B", ".", "T">>>>,
     <<kybLevel, taxId, <<>>>>}

\* What a cell of a column may hold
CellsOf(h) ==
    IF h = kybLevel THEN {basic, <<" ">> \o enhanced, <<>>}
    ELSE IF h = taxId THEN {<<>>, <<"1", "2">>, <<"x">>}
    ELSE {<<"v">>}

\* csv.DictReader: the rows of a file with header line hs
RowsOf(hs) == {row \in [Range(hs) -> UNION {CellsOf(h) : h \in Range(hs)}] :
                  \A h \in Range(hs) : row[h] \in CellsOf(h)}

InitValidate ==
    /\ call = CallIdle
    /\ BatchIdle
    /\ earlier = NoEarlier
    /\ rules \in RuleSets
    /\ headers \in HeaderLists
    /\ rows \in SeqsUpTo(RowsOf(headers), MaxRows)
    /\ header_errors = <<>>
    /\ validation = <<>>
    /\ json_data = <<>>
    /\ vpc = "headers"
    /\ argv = <<>>
    /\ main = <<>>

\* validate_headers
DoValidateHeaders ==
    /\ vpc = "headers"
    /\ \E order \in Orders(FieldNames(rules)) :
          header_errors' = ValidateHeadersIn(rules, headers, order)
    /\ vpc' = "rows"
    /\ UNCHANGED <<call, batchVarsOnly, earlier, rules, headers, rows, validation,
                   json_data, argv, main>>

\* validate_rows; the caller goes no further when it raises
DoValidateRows ==
    /\ vpc = "rows"
    /\ validation' = ValidateRows(rows, rules)
    /\ vpc' = IF ValidateRowsRaises(rows, rules) THEN "raised" ELSE "convert"
    /\ UNCHANGED <<call, batchVarsOnly, earlier, rules, headers, rows, header_errors,
                   json_data, argv, main>>

\* csv_to_json
DoCsvToJson ==
    /\ vpc = "convert"
    /\ json_data' = CsvToJson(rows, headers, rules)
    /\ vpc' = "end"
    /\ UNCHANGED <<call, batchVarsOnly, earlier, rules, headers, rows, header_errors,
                   validation, argv, main>>

\* csv_to_json once more, on the same rows
DoCsvToJsonAgain ==
    /\ vpc = "end"
    /\ json_data' = CsvToJson(rows, headers, rules)
    /\ vpc' = "again"
    /\ UNCHANGED <<call, batchVarsOnly, earlier, rules, headers, rows, header_errors,
                   validation, argv, main>>

NextValidate ==
    DoValidateHeaders \/ DoValidateRows \/ DoCsvToJson \/ DoCsvToJsonAgain

SpecValidate == InitValidate /\ [][NextValidate]_vars

-----------------------------------------------------------------------------
(* SpecField: the same three calls on a file of one column, an integer      *)
(* field, and one row                                                       *)

MaxCell == 3            \* longest cell drawn from an alphabet

score == <<"s">>

\* {"type": "integer"} with "min" and "max" as told
IntegerRule(hasMin, min_val, hasMax, max_val) ==
    [BaseRule(score) EXCEPT
        !.keys = {"type"} \cup (IF hasMin THEN {"min"} ELSE {})
                          \cup (IF hasMax THEN {"max"} ELSE {}),
        !.type = "integer", !.min = min_val, !.max = max_val]

\* No bound, one bound, both, and a min above the max
IntegerRules ==
    {IntegerRule(FALSE, 0, FALSE, 0), IntegerRule(TRUE, 0, FALSE, 0),
     IntegerRule(FALSE, 0, TRUE, 100), IntegerRule(TRUE, 0, TRUE, 100),
     IntegerRule(TRUE, 5, TRUE, 3)}

IntegerChars == {"0", "1", "4", "-", "a", "_", " "}

IntegerCells ==
    SeqsUpTo(IntegerChars, MaxCell)
        \cup {<<"1", "5", "0">>, <<"a", "b", "c">>, <<"1", "0", "0">>,
              <<"1", "0", "1">>}

InitField ==
    /\ call = CallIdle
    /\ BatchIdle
    /\ earlier = NoEarlier
    /\ rules \in {<<rule>> : rule \in IntegerRules}
    /\ headers = <<score>>
    /\ rows \in {<<[h \in {score} |-> cell]>> : cell \in IntegerCells}
    /\ header_errors = <<>>
    /\ validation = <<>>
    /\ json_data = <<>>
    /\ vpc = "headers"
    /\ argv = <<>>
    /\ main = <<>>

SpecField == InitField /\ [][NextValidate]_vars

-----------------------------------------------------------------------------
(* SpecSplit: the Validator and the Converter each split one raw string     *)

tags == <<"t">>

ArrayChars == {"a", "b", "|", ",", " "}

\* a|b,c  a,b  solo
RawStrings ==
    SeqsUpTo(ArrayChars, MaxCell)
        \cup {<<"a", "|", "b", ",", "c">>, <<"s", "o", "l", "o">>,
              <<" ", "a", " ", "b", " ", ",", " ">>}

InitSplit ==
    /\ call = CallIdle
    /\ BatchIdle
    /\ earlier = NoEarlier
    /\ rules = <<[BaseRule(tags) EXCEPT !.keys = {"type"}, !.type = "array"]>>
    /\ headers = <<tags>>
    /\ rows \in {<<[h \in {tags} |-> raw]>> : raw \in RawStrings}
    /\ header_errors = <<>>
    /\ validation = <<>>
    /\ json_data = <<>>
    /\ vpc = "raw"
    /\ argv = <<>>
    /\ main = <<>>

\* Validator._split_array_value(value)
DoSplitArrayValue ==
    /\ vpc \in {"raw", "parsed"}
    /\ validation' = SplitArrayValue(rows[1][tags])
    /\ vpc' = IF vpc = "raw" THEN "split" ELSE "both"
    /\ UNCHANGED <<call, batchVarsOnly, earlier, rules, headers, rows, header_errors,
                   json_data, argv, main>>

\* Converter._parse_array(value)
DoParseArray ==
    /\ vpc \in {"raw", "split"}
    /\ json_data' = ParseArray(rows[1][tags])
    /\ vpc' = IF vpc = "raw" THEN "parsed" ELSE "both"
    /\ UNCHANGED <<call, batchVarsOnly, earlier, rules, headers, rows, header_errors,
                   validation, argv, main>>

NextSplit == DoSplitArrayValue \/ DoParseArray

SpecSplit == InitSplit /\ [][NextSplit]_vars

-----------------------------------------------------------------------------
(* SpecRagged: the same calls on files whose rows have fewer or more cells  *)
(* than the header line, with a field of every type                         *)

MaxRagged == 1          \* most rows of such a file

flag == <<"b", ".", "f">>

FlagRule == [BaseRule(flag) EXCEPT !.keys = {"type"}, !.type = "boolean"]

TagsRule == [BaseRule(tags) EXCEPT !.keys = {"type"}, !.type = "array"]

\* c.k enum, b.t integer, and b.f boolean or t array; b.t depends on
\* nothing, on c.k, or on c.k and n, a column that is no field
RaggedRuleSets ==
    {<<KybRule, TaxRule("integer", FALSE, cond), third>> :
        cond \in {NoCond, SingleCond, MultiCond(TRUE)},
        third \in {FlagRule, TagsRule}}

\* The header lines for a rule file: its fields, and its fields and n
RaggedHeaderLists(rs) ==
    {[k \in 1..Len(rs) |-> rs[k].name],
     [k \in 1..Len(rs) |-> rs[k].name] \o <<notes>>}

RaggedCellsOf(h) ==
    IF h = kybLevel THEN {basic, <<>>}
    ELSE IF h = taxId THEN {<<>>, <<"1", "2">>, <<"x">>}
    ELSE IF h = flag THEN {<<"T", "R", "U", "E">>, LitFalse}
    ELSE IF h = tags THEN {<<"a", "|", "b">>, <<" ">>}
    ELSE {<<"v">>}

\* The rows of n cells of a file whose header line has the columns hs,
\* all of them different
RECURSIVE RowsWith(_, _)
RowsWith(hs, n) ==
    IF n = 0 THEN {[h \in Range(hs) |-> NoneCell]}
    ELSE {[row EXCEPT ![hs[n]] = cell] :
             row \in RowsWith(hs, n - 1), cell \in RaggedCellsOf(hs[n])}

\* The rows with a cell for every column
FullRows(hs) == RowsWith(hs, Len(hs))

\* The rows with fewer cells than columns, and one at least
ShortRows(hs) == UNION {RowsWith(hs, n) : n \in 1..(Len(hs) - 1)}

\* The rows with more cells than columns
LongRows(hs) ==
    {[h \in Range(hs) \cup {RestKey} |->
         IF h = RestKey THEN ListCell ELSE row[h]] : row \in FullRows(hs)}

RaggedRowsOf(hs) == FullRows(hs) \cup ShortRows(hs) \cup LongRows(hs)

InitRagged ==
    /\ call = CallIdle
    /\ BatchIdle
    /\ earlier = NoEarlier
    /\ rules \in RaggedRuleSets
    /\ headers \in RaggedHeaderLists(rules)
    /\ rows \in SeqsUpTo(RaggedRowsOf(headers), MaxRagged)
    /\ header_errors = <<>>
    /\ validation = <<>>
    /\ json_data = <<>>
    /\ vpc = "headers"
    /\ argv = <<>>
    /\ main = <<>>

SpecRagged == InitRagged /\ [][NextValidate]_vars

-----------------------------------------------------------------------------
(* SpecMain: one process of main.py, from the command line to its exit      *)

\* --retry-indexes and --retry-failed: absent, or a list of at least one
\* index (nargs='+'), or a path with what is at that path
NoRetryFailed == [given |-> FALSE, exists |-> FALSE, entries |-> <<>>]
RetryFailedMissing == [given |-> TRUE, exists |-> FALSE, entries |-> <<>>]
RetryFailedFile(idxs) ==
    [given |-> TRUE, exists |-> TRUE,
     entries |-> [k \in 1..Len(idxs) |-> [record_index |-> idxs[k]]]]

RetryOptions ==
    {[retry_indexes |-> <<>>, retry_failed |-> NoRetryFailed],
     [retry_indexes |-> <<2>>, retry_failed |-> NoRetryFailed],
     [retry_indexes |-> <<MaxRows + 1>>, retry_failed |-> NoRetryFailed],
     [retry_indexes |-> <<>>, retry_failed |-> RetryFailedMissing],
     [retry_indexes |-> <<>>, retry_failed |-> RetryFailedFile(<<2, 1>>)]}

\* The rule file of the runs of main.py
MainRules == <<KybRule, TaxRule("integer", FALSE, SingleCond)>>

MainHeaderLists ==
    {<<kybLevel, taxId>>,
     <<kybLevel, taxId, <<"z", "z", "z", "z", "z", "z">>>>,
     <<kybLevel, <<"b", ".", "t", "x">>>>,
     <<kybLevel, taxId, <<>>>>}

\* The process has not ended / has ended with sys.exit(0), sys.exit(1), or
\* with KeyboardInterrupt, which main.py catches nowhere
Running == "running"
ExitSuccess == "exit 0"
ExitFailure == "exit 1"
Interrupted == "KeyboardInterrupt"

\* The pool is as large as the model allows and the delay is positive, as
\* in InitRetry.
InitMain ==
    /\ call = CallIdle
    /\ BatchIdle
    /\ earlier = NoEarlier
    /\ \E files_exist \in [csv : BOOLEAN, rules : BOOLEAN],
          send_api \in BOOLEAN, credentials \in BOOLEAN, retry \in RetryOptions :
          /\ argv = [csv_exists |-> files_exist.csv,
                     rules_exists |-> files_exist.rules,
                     send_api |-> send_api, credentials |-> credentials,
                     retry_indexes |-> retry.retry_indexes,
                     retry_failed |-> retry.retry_failed,
                     num_processes |-> MaxWorkers, rate_limit_delay |-> 1]
          /\ IF files_exist.rules THEN rules = MainRules ELSE rules = <<>>
          /\ IF files_exist.csv
             THEN /\ headers \in MainHeaderLists
                  /\ rows \in SeqsUpTo(RowsOf(headers), MaxRows)
             ELSE headers = <<>> /\ rows = <<>>
    /\ header_errors = <<>>
    /\ validation = <<>>
    /\ json_data = <<>>
    /\ vpc = "idle"
    /\ main = [pc |-> "check_files", exit |-> Running, log |-> <<>>,
               json_file |-> FALSE]

\* The process ends: sys.exit(code), or an exception nobody catches
Exit(code, event) ==
    [main EXCEPT !.pc = "exited", !.exit = code, !.log = Append(main.log, event)]

\* The process goes on
Step(to, event) == [main EXCEPT !.pc = to, !.log = Append(main.log, event)]

\* lines 167-177
MainCheckFiles ==
    /\ main.pc = "check_files"
    /\ main' = IF ~argv.csv_exists THEN Exit(ExitFailure, "CSV file not found")
               ELSE IF ~argv.rules_exists
               THEN Exit(ExitFailure, "Rules file not found")
               ELSE Step("validate_headers", "files found")
    /\ UNCHANGED <<call, batchVarsOnly, earlier, rules, headers, rows,
                   header_errors, validation, json_data, vpc, argv>>

\* lines 182-200: the rule file and the CSV file are read, validate_headers
MainValidateHeaders ==
    /\ main.pc = "validate_headers"
    /\ \E order \in Orders(FieldNames(rules)) :
          header_errors' = ValidateHeadersIn(rules, headers, order)
    /\ main' = Step("validate_rows", "validate_headers")
    /\ UNCHANGED <<call, batchVarsOnly, earlier, rules, headers, rows,
                   validation, json_data, vpc, argv>>

\* Mutant: the gate looks at the result of validate_rows only.
ValidationFailed_ResultOnly(res, errs) == ~IsValid(res)

\* line 211: if not result.is_valid or header_errors
ValidationFailed(res, errs) == ~IsValid(res) \/ errs # <<>>

\* lines 202-212: validate_rows, the report, and the gate
MainValidateRows ==
    /\ main.pc = "validate_rows"
    /\ validation' = ValidateRows(rows, rules)
    /\ main' = IF ValidateRowsRaises(rows, rules)
               THEN Exit(ExitFailure, "Unexpected error")
               ELSE IF ValidationFailed(ValidateRows(rows, rules), header_errors)
               THEN [Exit(ExitFailure, "validate_rows")
                        EXCEPT !.log = @ \o <<"validation failed">>]
               ELSE Step("convert", "validate_rows")
    /\ UNCHANGED <<call, batchVarsOnly, earlier, rules, headers, rows,
                   header_errors, json_data, vpc, argv>>

\* lines 214-222: csv_to_json; an exception it raises is caught at line 312
MainConvert ==
    /\ main.pc = "convert"
    /\ json_data' = CsvToJson(rows, headers, rules)
    /\ main' = IF CsvToJson(rows, headers, rules).raised # None
               THEN Exit(ExitFailure, "Unexpected error")
               ELSE Step("save_json", "csv_to_json")
    /\ UNCHANGED <<call, batchVarsOnly, earlier, rules, headers, rows,
                   header_errors, validation, vpc, argv>>

\* lines 224-250 and 304-307: save_json, then the end of a process that
\* was not asked to send
MainSaveJson ==
    /\ main.pc = "save_json"
    /\ main' = IF argv.send_api
               THEN [Step("api_config", "save_json") EXCEPT !.json_file = TRUE]
               ELSE [Exit(ExitSuccess, "save_json") EXCEPT !.json_file = TRUE]
    /\ UNCHANGED <<call, batchVarsOnly, earlier, rules, headers, rows,
                   header_errors, validation, json_data, vpc, argv>>

\* lines 255-262 and 295-299: APIConfig, which raises ValueError when a
\* credential is missing, and APISender
MainApiConfig ==
    /\ main.pc = "api_config"
    /\ IF ~argv.credentials
       THEN /\ main' = Exit(ExitFailure, "API Configuration error")
            /\ UNCHANGED <<num_processes, rate_limit_delay>>
       ELSE /\ main' = Step("retry_options", "APIConfig")
            /\ num_processes' = argv.num_processes
            /\ rate_limit_delay' = argv.rate_limit_delay
    /\ UNCHANGED <<call, all_records, retry_indexes, pc, record_index_map,
                   records, queue, workers, results, successful_responses,
                   failed_responses, files, ret, issued, warnings, answered,
                   confirmed, user_input, uuid, earlier, rules, headers, rows,
                   header_errors, validation, json_data, vpc, argv>>

\* lines 264-276: the retry list of the process
MainRetryIndexes ==
    IF argv.retry_indexes # <<>> THEN RetryList(argv.retry_indexes)
    ELSE IF argv.retry_failed.given
    THEN RetryList(ExtractFailedIndexes(argv.retry_failed.entries))
    ELSE NoRetry

\* lines 264-282: the retry options, and send_batch is called on the file
\* save_json wrote
MainRetryOptions ==
    /\ main.pc = "retry_options"
    /\ IF argv.retry_indexes = <<>> /\ argv.retry_failed.given
          /\ ~argv.retry_failed.exists
       THEN /\ main' = Exit(ExitFailure, "Failed file not found")
            /\ UNCHANGED <<all_records, retry_indexes, pc>>
       ELSE /\ main' = Step("send_batch", "send_batch")
            /\ all_records' = json_data.json_objects
            /\ retry_indexes' = MainRetryIndexes
            /\ pc' = "start"
    /\ UNCHANGED <<call, num_processes, rate_limit_delay, record_index_map,
                   records, queue, workers, results, successful_responses,
                   failed_responses, files, ret, issued, warnings, answered,
                   confirmed, user_input, uuid, earlier, rules, headers, rows,
                   header_errors, validation, json_data, vpc, argv>>

\* lines 285-303: print_summary divides by the total, and ZeroDivisionError
\* is caught at line 301; else the exit code tells whether a record failed
ExitOf(success_count, failed_count) ==
    IF success_count + failed_count = 0 THEN ExitFailure
    ELSE IF failed_count = 0 THEN ExitSuccess ELSE ExitFailure

\* lines 279-303: send_batch has returned
MainSummary ==
    /\ main.pc = "send_batch"
    /\ pc = "done"
    /\ main' = Exit(ExitOf(ret[1], ret[2]),
                    IF ret[1] + ret[2] = 0 THEN "API error" ELSE "print_summary")
    /\ UNCHANGED <<call, batchVarsOnly, earlier, rules, headers, rows,
                   header_errors, validation, json_data, vpc, argv>>

\* KeyboardInterrupt, raised again by send_batch, is no Exception: neither
\* line 301 nor line 312 catches it
MainInterrupted ==
    /\ main.pc = "send_batch"
    /\ pc = "interrupted"
    /\ main' = Exit(Interrupted, "KeyboardInterrupt")
    /\ UNCHANGED <<call, batchVarsOnly, earlier, rules, headers, rows,
                   header_errors, validation, json_data, vpc, argv>>

NextMain ==
    \/ MainCheckFiles
    \/ MainValidateHeaders
    \/ MainValidateRows
    \/ MainConvert
    \/ MainSaveJson
    \/ MainApiConfig
    \/ MainRetryOptions
    \/ Next
    \/ MainSummary
    \/ MainInterrupted

SpecMain == InitMain /\ [][NextMain]_vars

-----------------------------------------------------------------------------
(* Properties of _send_single_request, checked under SpecSend *)

Returned == call.pc = "returned"

Is2xx(status) == status \in 200..299

\* C6: whatever the transport does, no exception leaves the call, and the
\* result that is returned carries the caller's record index and request body.
C6_NoExceptionEscapes ==
    /\ call.pc # "raised"
    /\ call.pc \in {"after_try", "slept", "returned"} =>
          /\ call.escaped = None
          /\ {"record_index", "request_body"} \subseteq call.result.keys
          /\ call.result.record_index = call.args.record_index
          /\ call.result.request_body = call.args.record

\* C6 witness: a call returned after the transport raised an exception that
\* is no requests exception.
C6_Witness ==
    /\ Returned
    /\ call.outcome.kind = "exception"
    /\ call.outcome.exc = "OSError"

\* C7 (as claimed): every response with a status in 200..299, whatever its
\* body, gives success = true, statusCode = the status, and responseBody =
\* the parsed body or the empty object for a blank body.
C7_Every2xxIsSuccess ==
    (Returned /\ call.outcome.kind = "response" /\ Is2xx(call.outcome.status)) =>
        /\ call.result.success
        /\ call.result.status_code = {call.outcome.status}
        /\ call.result.response_body =
              IF call.outcome.text.len = 0 THEN EmptyObject
              ELSE Parsed(call.outcome.text)

\* C8 (as claimed): every response with a status outside 200..299, whatever
\* its body, gives success = false, statusCode = the status, and an error
\* text carrying at most 500 characters of the response.
C8_EveryNon2xxKeepsStatus ==
    (Returned /\ call.outcome.kind = "response" /\ ~Is2xx(call.outcome.status)) =>
        /\ ~call.result.success
        /\ call.result.status_code = {call.outcome.status}
        /\ Len(call.result.error) = 4
        /\ call.result.error[1] = "HTTP "
        /\ call.result.error[4].content = call.outcome.text.content
        /\ call.result.error[4].len <= 500
        /\ call.result.error[4].len <= call.outcome.text.len

\* The category of a transport exception: a timeout (of the connection or of
\* the read), else a connection failure, else generic.
ExcCategory(e) ==
    CASE e \in {"ReadTimeout", "ConnectTimeout"} -> "timeout"
      [] e = "ConnectionError" -> "connection"
      [] OTHER -> "generic"

MessageCategory(error) ==
    IF error = <<>> THEN "none"
    ELSE CASE error[1] = "Request timeout (30s)" -> "timeout"
           [] error[1] = "Connection error - unable to reach API" -> "connection"
           [] error[1] \in {"Request error: ", "Unexpected error: "} -> "generic"
           [] OTHER -> "none"

\* C9: a call that ends in a timeout, a connection failure or another
\* transport exception returns success = false, status_code = None and the
\* message of the exception's category.
C9_TransportFailure ==
    (Returned /\ call.outcome.kind = "exception") =>
        /\ ~call.result.success
        /\ "status_code" \in call.result.keys
        /\ call.result.status_code = {}
        /\ "error" \in call.result.keys
        /\ MessageCategory(call.result.error) = ExcCategory(call.outcome.exc)

\* C9 witness: a returned call whose connection attempt failed.
C9_Witness ==
    /\ Returned
    /\ call.outcome.kind = "exception"
    /\ call.outcome.exc = "ConnectionError"
    /\ call.result.error = <<"Connection error - unable to reach API">>

-----------------------------------------------------------------------------
(* Properties of send_batch, checked under Spec *)

NumRecords == Len(all_records)

\* The run is in the code's retry mode: a list with at least one index.
RetryRun == retry_indexes.given /\ retry_indexes.list # <<>>

\* The effective selection, stated from the inputs alone: the entries of the
\* retry list that are indexes of the file, in the order of the list, or
\* every index of the file when the run is no retry.
IsIndexOfFile(i) == i \in 1..NumRecords

EffectiveSelection ==
    IF RetryRun THEN SelectSeq(retry_indexes.list, IsIndexOfFile)
    ELSE [k \in 1..NumRecords |-> k]

EffectiveSize == Len(EffectiveSelection)

EffectiveIndex(k) == EffectiveSelection[k]

\* The answers of Answers that read yes or y once blanks around them and
\* letter case are put aside.
YesAnswers == {<<" ", "Y">>, <<"Y", "e", "s", " ">>}

AllResults == successful_responses \o failed_responses

BusyWorkers == {w \in DOMAIN workers : workers[w].stage # "idle"}

\* C1: in a run over more than one record the first request is the
\* pre-flight one: for the first record of the effective selection, sent with
\* zero delay while no pool exists; and a second request is issued only after
\* the operator has answered yes or y.
C1_PreflightFirstAndAlone ==
    EffectiveSize > 1 =>
        /\ pc \notin {"start", "test"} => issued # <<>>
        /\ issued # <<>> =>
              /\ issued[1] = [by |-> "test", delay |-> 0,
                              record_index |-> EffectiveIndex(1),
                              record |-> DocAt(EffectiveIndex(1))]
        /\ pc \in {"test", "prompt"} => workers = <<>> /\ queue = <<>>
        /\ (Len(issued) > 1 \/ BusyWorkers # {} \/ queue # <<>>) =>
              confirmed = "yes" /\ user_input \in YesAnswers
        /\ \A k \in 2..Len(issued) : issued[k].by = "pool"

\* C1 witness: a retry run over two records, the first requested not being
\* record 1 of the file, waits at the prompt after its pre-flight request.
C1_Witness ==
    /\ pc = "prompt"
    /\ RetryRun
    /\ EffectiveSize > 1
    /\ Len(issued) = 1
    /\ issued[1].record_index = retry_indexes.list[1]
    /\ issued[1].record_index > 1

\* C2: after any answer other than yes/y the run is over with the pre-flight
\* request as its only request, the pre-flight result is in the success file
\* or in the failure file according to its success flag, and the counts of
\* the two lists are returned.
C2_DeclineStopsAndPersists ==
    /\ (confirmed # "unasked" /\ user_input \notin YesAnswers) => confirmed = "no"
    /\ confirmed = "no" =>
          /\ pc = "done"
          /\ Len(issued) = 1
          /\ BusyWorkers = {} /\ queue = <<>> /\ results = <<>>
          /\ Len(AllResults) = 1
          /\ AllResults[1].record_index = issued[1].record_index
          /\ DOMAIN files = (IF AllResults[1].success THEN {"success"} ELSE {"failed"})
          /\ \A n \in DOMAIN files : files[n] = <<AllResults[1]>>
          /\ ret = <<Len(successful_responses), Len(failed_responses)>>
          /\ ret = (IF AllResults[1].success THEN <<1, 0>> ELSE <<0, 1>>)

\* C2 witness: the operator typed something that only begins like yes after a
\* failed pre-flight request.
C2_Witness ==
    /\ confirmed = "no"
    /\ user_input = <<"y", "e", "s", "s">>
    /\ DOMAIN files = {"failed"}

\* C3 (as claimed): when KeyboardInterrupt ends the bulk phase, every result
\* collected before it, the pre-flight result included, is in the success or
\* the failure file when the exception reaches the caller.
C3_InterruptPersists ==
    pc = "interrupted" =>
        \A r \in Range(AllResults) \cup Range(results) :
            LET n == IF r.success THEN "success" ELSE "failed"
            IN  n \in DOMAIN files /\ r \in Range(files[n])

\* A run that called _save_responses: it sent something and returned.
ReachedPersistence == pc = "done" /\ issued # <<>>

\* C4: when a run has persisted, the success file is the success list and the
\* failure file the failure list, and a file exists iff its list is not empty.
C4_FilesAreTheLists ==
    ReachedPersistence =>
        /\ ("success" \in DOMAIN files) <=> (successful_responses # <<>>)
        /\ ("failed" \in DOMAIN files) <=> (failed_responses # <<>>)
        /\ "success" \in DOMAIN files => files["success"] = successful_responses
        /\ "failed" \in DOMAIN files => files["failed"] = failed_responses
        /\ \A r \in Range(successful_responses) : r.success
        /\ \A r \in Range(failed_responses) : ~r.success
        /\ Len(successful_responses) + Len(failed_responses) = Len(issued)

\* C4 witness: a completed run with several successes and no failure, so
\* that only the success file exists.
C4_Witness ==
    /\ ReachedPersistence
    /\ confirmed = "yes"
    /\ DOMAIN files = {"success"}
    /\ Len(files["success"]) >= 2

\* The results filed for a request.
ResultsOf(list, id) == {k \in 1..Len(list) : list[k].request_id = id}

\* C5 (as claimed): after a completed run every request has exactly one
\* result; it is in the success list iff the response had a 2xx status, and
\* otherwise in the failure list with the returned status code and the
\* excerpt of the response.
C5_CompletedRunClassifiesByStatus ==
    (pc = "done" /\ confirmed # "no" /\ issued # <<>>) =>
        /\ Cardinality(answered) = EffectiveSize
        /\ \A a \in answered :
              LET s == ResultsOf(successful_responses, a.request_id)
                  f == ResultsOf(failed_responses, a.request_id)
              IN  /\ Cardinality(s) + Cardinality(f) = 1
                  /\ (a.outcome.kind = "response" /\ Is2xx(a.outcome.status))
                        <=> (s # {})
                  /\ (a.outcome.kind = "response" /\ ~Is2xx(a.outcome.status)) =>
                        \A k \in f :
                            /\ failed_responses[k].status_code = {a.outcome.status}
                            /\ Len(failed_responses[k].error) = 4
                            /\ failed_responses[k].error[4].content
                                  = a.outcome.text.content

\* Every result the run holds, in a list, in results or in a worker's hands.
HeldResults ==
    Range(AllResults) \cup Range(results)
        \cup {workers[w].result : w \in {v \in DOMAIN workers :
                                           workers[v].stage \in {"sleeping", "ready"}}}

\* C10: in a retry run over a file of N records the requests are issued for
\* the requested indexes in 1..N, in the order requested; an index out of
\* range is reported and skipped and the run goes on; every result carries
\* its index and the record of the file at that index.
C10_RetrySelectsInRangeInOrder ==
    RetryRun =>
        LET sel == EffectiveSelection
        IN  /\ pc # "start" =>
                  /\ record_index_map = sel
                  /\ records = [k \in 1..Len(sel) |-> DocAt(sel[k])]
                  /\ Len(warnings) = Len(retry_indexes.list) - Len(sel)
                  /\ \A k \in 1..Len(warnings) :
                        /\ warnings[k] \notin 1..NumRecords
                        /\ warnings[k] \in Range(retry_indexes.list)
            /\ Len(issued) <= Len(sel)
            /\ \A k \in 1..Len(issued) :
                  /\ issued[k].record_index = sel[k]
                  /\ issued[k].record = DocAt(sel[k])
            /\ (pc = "done" /\ confirmed # "no") =>
                  /\ Len(issued) = Len(sel)
                  /\ Len(AllResults) = Len(sel)
                  /\ ret = <<Len(successful_responses), Len(failed_responses)>>
            /\ \A r \in HeldResults :
                  /\ r.record_index \in 1..NumRecords
                  /\ r.record_index \in Range(retry_indexes.list)
                  /\ r.request_body = DocAt(r.record_index)

\* C10 witness: a retry run that skipped an index out of range and completed
\* with the result of the record it was left with.
C10_Witness ==
    /\ RetryRun
    /\ pc = "done"
    /\ warnings # <<>>
    /\ Len(AllResults) = 1
    /\ AllResults[1].record_index = 2
    /\ AllResults[1].request_body = DocAt(2)

\* C11: a retry run none of whose requested indexes is an index of the file
\* ends at once: it returns zero successes and zero failures, no request is
\* issued, no pool is created and no file is written.
C11_EmptySelectionEndsRun ==
    (RetryRun /\ EffectiveSize = 0) =>
        /\ pc \in {"start", "done"}
        /\ pc = "done" => ret = <<0, 0>> /\ Len(warnings) = Len(retry_indexes.list)
        /\ issued = <<>> /\ answered = {} /\ uuid = 0
        /\ workers = <<>> /\ queue = <<>>
        /\ AllResults = <<>>
        /\ DOMAIN files = {}

\* C11 witness: both requested indexes, one below and one above the file,
\* were skipped over a file that has records, and the run is over.
C11_Witness ==
    /\ RetryRun
    /\ pc = "done"
    /\ NumRecords >= 1
    /\ Len(retry_indexes.list) = 2
    /\ warnings = retry_indexes.list
    /\ warnings[1] < 1 /\ warnings[2] > NumRecords
    /\ ret = <<0, 0>>

\* The outcome the transport gave to the k-th request of the run.
OutcomeOf(k) == (CHOOSE a \in answered : a.request_id = k).outcome

\* The result of the k-th request, from its record and its response alone.
ExpectedResult(k) ==
    SendSingleRequest([record |-> issued[k].record,
                       record_index |-> issued[k].record_index,
                       delay |-> issued[k].delay],
                      k, OutcomeOf(k)).result

\* The run went through its bulk phase to the end.
CompletedRun == pc = "done" /\ issued # <<>> /\ confirmed # "no"

\* C13: when a run is completed, its success list and its failure list hold,
\* as sets, the results that the records selected and the responses given to
\* them determine, whatever the order in which the workers completed; the
\* order inside the lists and the files is the pre-flight result first and
\* then the order of completion.
C13_AggregationIgnoresOrder ==
    CompletedRun =>
        LET expected == {ExpectedResult(k) : k \in 1..Len(issued)}
            bulk == IF Len(issued) > 1 THEN Len(issued) - 1 ELSE 1
        IN  /\ Range(successful_responses) = {r \in expected : r.success}
            /\ Range(failed_responses) = {r \in expected : ~r.success}
            /\ Len(successful_responses) + Len(failed_responses) = Len(issued)
            /\ Len(results) = bulk
            /\ \E n \in 0..Len(successful_responses) :
                  /\ n + Len(failed_responses) - Len(FailureOf(results)) <= 1
                  /\ successful_responses
                        = SubSeq(successful_responses, 1, n) \o SuccessOf(results)
            /\ \E n \in 0..Len(failed_responses) :
                  failed_responses
                      = SubSeq(failed_responses, 1, n) \o FailureOf(results)
            /\ \A n \in DOMAIN files :
                  files[n] = IF n = "success" THEN successful_responses
                             ELSE failed_responses

\* C13 witness: in a completed run the worker of record 3 returned before
\* the worker of record 2, both with a failure, after a successful
\* pre-flight request for record 1.
C13_Witness ==
    /\ CompletedRun
    /\ ~RetryRun
    /\ Len(results) = 2
    /\ results[1].record_index = 3 /\ results[2].record_index = 2
    /\ Len(successful_responses) = 1
    /\ Len(failed_responses) = 2
    /\ failed_responses[1].record_index = 3

-----------------------------------------------------------------------------
(* Properties of the retry round trip, checked under SpecRetry *)

\* The rows the earlier run filed as failed.
FailedBefore == {e.record_index : e \in Range(earlier.files["failed"])}

\* C12: a retry run fed with the indexes extracted from the failure file of
\* an earlier run over the same original file selects, and when it is
\* completed has submitted, exactly the original rows filed as failed by
\* that run, once per entry of the file, whatever the earlier run's
\* success file holds.
C12_RetryRoundTrip ==
    earlier.given =>
        /\ RetryRun
        /\ pc # "start" =>
              /\ warnings = <<>>
              /\ Range(record_index_map) = FailedBefore
              /\ Len(record_index_map) = Len(earlier.files["failed"])
              /\ records = [k \in 1..Len(record_index_map) |->
                                all_records[record_index_map[k]]]
        /\ \A k \in 1..Len(issued) :
              /\ issued[k].record_index \in FailedBefore
              /\ issued[k].record = all_records[issued[k].record_index]
        /\ (pc = "done" /\ confirmed # "no") =>
              /\ {issued[k].record_index : k \in 1..Len(issued)} = FailedBefore
              /\ Len(issued) = Len(earlier.files["failed"])

\* C12 witness: the earlier run had a success and filed record 3 before
\* record 2 as failed; the retry run over the two is completed.
C12_Witness ==
    /\ earlier.given
    /\ "success" \in DOMAIN earlier.files
    /\ Len(earlier.files["failed"]) = 2
    /\ earlier.files["failed"][1].record_index = 3
    /\ earlier.files["failed"][2].record_index = 2
    /\ pc = "done"
    /\ confirmed = "yes"
    /\ Len(issued) = 2

\* How many entries of a list of results or requests carry the index i
Occurrences(list, i) ==
    Cardinality({k \in 1..Len(list) : list[k].record_index = i})

\* How many times the index i stands in a list of indexes
TimesIn(list, i) == Cardinality({k \in 1..Len(list) : list[k] = i})

Ascending(list) == \A k \in 1..(Len(list) - 1) : list[k] <= list[k + 1]

\* C34: extract_failed_indexes returns the record_index of every entry of
\* the failure file in ascending order, duplicates kept, and a retry run fed
\* with that list submits a record once per occurrence of its index in the
\* list.
C34_ExtractedListAndItsRun ==
    earlier.given =>
        /\ Ascending(retry_indexes.list)
        /\ Len(retry_indexes.list) = Len(earlier.files["failed"])
        /\ \A i \in 0..MaxRecords :
              TimesIn(retry_indexes.list, i) = Occurrences(earlier.files["failed"], i)
        /\ \A i \in 0..MaxRecords :
              /\ Occurrences(issued, i) <= TimesIn(retry_indexes.list, i)
              /\ (pc = "done" /\ confirmed # "no") =>
                    Occurrences(issued, i) = TimesIn(retry_indexes.list, i)

\* C34 witness: the failure file of a retry run holds record 2 twice; the
\* list extracted is 2, 2 and the run over it has submitted record 2 twice.
C34_Witness ==
    /\ earlier.given
    /\ Len(earlier.files["failed"]) = 2
    /\ Occurrences(earlier.files["failed"], 2) = 2
    /\ retry_indexes.list = <<2, 2>>
    /\ pc = "done"
    /\ confirmed = "yes"
    /\ Occurrences(issued, 2) = 2

\* The failure file holds record 3 before record 1; the list extracted is
\* 1, 3.
C34_WitnessOrder ==
    /\ earlier.given
    /\ Len(earlier.files["failed"]) = 2
    /\ earlier.files["failed"][1].record_index = 3
    /\ earlier.files["failed"][2].record_index = 1
    /\ retry_indexes.list = <<1, 3>>

-----------------------------------------------------------------------------
(* Properties of main.py, checked under SpecMain *)

Logged(event) == event \in Range(main.log)

Ended == main.pc = "exited"

\* The process stopped on a configuration error.
ConfigErrors == {"CSV file not found", "Rules file not found",
                 "API Configuration error", "Failed file not found"}

ConfigError == \E event \in ConfigErrors : Logged(event)

\* C14 (as claimed): a process that went through validation and was stopped
\* neither by a configuration error nor by an interrupt ends with exit code
\* 0 when there was no header error, no row error and no failed submission,
\* and with exit code 1 when there was one.
C14_ExitSignal ==
    (Ended /\ Logged("validate_rows") /\ ~ConfigError
        /\ main.exit # Interrupted) =>
        IF header_errors = <<>> /\ validation.errors = <<>>
              /\ failed_responses = <<>>
        THEN main.exit = ExitSuccess
        ELSE main.exit = ExitFailure

\* C15 (as claimed): when a configuration error is reported the process has
\* ended with exit code 1, and no row was validated or converted, no file
\* was written and no request was sent before.
C15_ConfigErrorsComeFirst ==
    ConfigError =>
        /\ Ended /\ main.exit = ExitFailure
        /\ ~Logged("validate_rows")
        /\ ~Logged("csv_to_json")
        /\ ~Logged("save_json") /\ ~main.json_file
        /\ issued = <<>> /\ DOMAIN files = {}

\* C16: rows are converted, the converted file is written and send_batch is
\* called only after header validation and row validation both returned no
\* error; and once validate_headers has returned, validate_rows is the next
\* step or has run, whatever validate_headers returned.
C16_ValidationGatesConversion ==
    /\ (Logged("csv_to_json") \/ Logged("save_json") \/ main.json_file
           \/ main.pc \in {"convert", "save_json"}
           \/ Logged("send_batch") \/ pc # "idle" \/ issued # <<>>) =>
          /\ Logged("validate_headers") /\ header_errors = <<>>
          /\ Logged("validate_rows") /\ validation.errors = <<>>
    /\ Logged("validate_headers") =>
          (main.pc = "validate_rows" \/ Logged("validate_rows"))
    /\ Logged("validate_rows") =>
          validation = ValidateRows(rows, rules)

\* C16 witness: the header line has an unknown column, every row is valid;
\* the rows were validated all the same and the process ended with exit
\* code 1 before the conversion.
C16_Witness ==
    /\ Ended
    /\ header_errors # <<>>
    /\ Logged("validate_rows")
    /\ Len(rows) = MaxRows
    /\ validation.errors = <<>>
    /\ main.exit = ExitFailure
    /\ ~main.json_file

-----------------------------------------------------------------------------
(* Properties of the validator and the converter, under SpecValidate        *)

\* validate_rows has returned
Validated == vpc \in {"convert", "end", "again"}

\* csv_to_json has returned
Converted == vpc \in {"end", "again"}

\* C17: once validate_headers and validate_rows have run, the result's
\* is_valid is true if and only if the list of row errors and the list of
\* header errors are both empty.
C17_IsValidIffBothListsEmpty ==
    Validated =>
        (IsValid(validation) <=>
            (validation.errors = <<>> /\ header_errors = <<>>))

\* The unknown-header errors that validate_headers returned for a header
UnknownErrorsFor(header) ==
    SelectSeq(header_errors,
              LAMBDA e : e.kind = "Unknown header" /\ e.header = header)

\* C18: validate_headers reports an unknown-header error for each header
\* that is not a key of the rule file, with at most one suggested field
\* name per unknown header, and its result is the same whatever the rows
\* contain.
C18_UnknownHeadersReported ==
    vpc # "headers" =>
        /\ \A k \in 1..Len(headers) :
              headers[k] \notin FieldNames(rules) =>
                  UnknownErrorsFor(headers[k]) # <<>>
        /\ \A k \in 1..Len(header_errors) :
              Len(header_errors[k].suggestion) <= 1
        /\ \E order \in Orders(FieldNames(rules)) :
              header_errors = ValidateHeadersIn(rules, headers, order)

\* The parts of C18 that hold: a header with a name that is no key of the
\* rule file has its unknown-header error.
NamedUnknownHeadersReported ==
    vpc # "headers" =>
        \A k \in 1..Len(headers) :
            (headers[k] # <<>> /\ headers[k] \notin FieldNames(rules)) =>
                Len(UnknownErrorsFor(headers[k])) = 1

\* The rules with a conditionalRequired of a single dependency, and of any
\* kind
SingleRules ==
    {k \in 1..Len(rules) : /\ "conditionalRequired" \in rules[k].keys
                           /\ rules[k].conditionalRequired.dependsOnIsStr}

CondRules == {k \in 1..Len(rules) : "conditionalRequired" \in rules[k].keys}

\* The errors validate_rows reported for a field of the idx-th row
ErrorsFor(idx, field_name) ==
    SelectSeq(validation.errors,
              LAMBDA e : e.row_number = idx /\ e.field = field_name)

\* The cell of a row, stripped, as the code reads it; empty when the row
\* has no such column
Cell(idx, field_name) ==
    IF field_name \in DOMAIN rows[idx] THEN Strip(rows[idx][field_name])
    ELSE <<>>

\* The value of the single dependency of a rule is one of its whenNotIn
InWhenNotIn(idx, rule) ==
    \E v \in Range(rule.conditionalRequired.whenNotIn) :
        v = Cell(idx, rule.conditionalRequired.dependsOn[1])

\* First half of C19: dependency value not in whenNotIn and field empty:
\* exactly one error for the field, of kind conditional_required.
OneConditionalError(idx, rule) ==
    (~InWhenNotIn(idx, rule) /\ Cell(idx, rule.name) = <<>>) =>
        /\ Len(ErrorsFor(idx, rule.name)) = 1
        /\ ErrorsFor(idx, rule.name)[1].error_type = "conditional_required"

\* C19: for every row and every field with a single-dependency
\* conditionalRequired rule: if the dependency's value is not in whenNotIn
\* and the field is empty, exactly one error is reported for the field, of
\* kind conditional_required, and no required_field or type error; if the
\* dependency's value is in whenNotIn and the field is empty, no error is
\* reported for it.
C19_SingleDependency ==
    Validated =>
        \A idx \in 1..Len(rows), k \in SingleRules :
            /\ OneConditionalError(idx, rules[k])
            /\ (InWhenNotIn(idx, rules[k]) /\ Cell(idx, rules[k].name) = <<>>) =>
                  ErrorsFor(idx, rules[k].name) = <<>>

\* C19 as it holds: the same, but with the dependency's value in whenNotIn
\* and the field empty, no error is reported for the field unless its rule
\* also has required: true, and then exactly one, of kind required_field.
C19_SingleDependencyUnlessRequired ==
    Validated =>
        \A idx \in 1..Len(rows), k \in SingleRules :
            /\ OneConditionalError(idx, rules[k])
            /\ (InWhenNotIn(idx, rules[k]) /\ Cell(idx, rules[k].name) = <<>>) =>
                  IF IsRequired(rules[k])
                  THEN /\ Len(ErrorsFor(idx, rules[k].name)) = 1
                       /\ ErrorsFor(idx, rules[k].name)[1].error_type
                              = "required_field"
                  ELSE ErrorsFor(idx, rules[k].name) = <<>>

\* C19 witness: b.t is required and depends on c.k unless basic; the first
\* row has c.k enhanced and the second c.k basic, both with b.t empty: one
\* conditional_required error for the first, one required_field error for
\* the second.
C19_Witness ==
    /\ Validated
    /\ rules[2].conditionalRequired = SingleCond
    /\ IsRequired(rules[2])
    /\ headers = <<kybLevel, taxId>>
    /\ Len(rows) = 2
    /\ Cell(1, kybLevel) = enhanced /\ Cell(1, taxId) = <<>>
    /\ Cell(2, kybLevel) = basic /\ Cell(2, taxId) = <<>>
    /\ Len(ErrorsFor(1, taxId)) = 1
    /\ ErrorsFor(1, taxId)[1].error_type = "conditional_required"
    /\ Len(ErrorsFor(2, taxId)) = 1
    /\ ErrorsFor(2, taxId)[1].error_type = "required_field"

\* The dependency condition of a conditional rule is not met in a row: the
\* single dependency's value is one of whenNotIn; of a list of
\* dependencies, whenAnyPresent is not set or every dependency is empty.
ConditionNotMet(idx, rule) ==
    IF rule.conditionalRequired.dependsOnIsStr
    THEN InWhenNotIn(idx, rule)
    ELSE \/ ~rule.conditionalRequired.whenAnyPresent
         \/ \A d \in Range(rule.conditionalRequired.dependsOn) :
               Cell(idx, d) = <<>>

\* The converted document of the idx-th row has no key for a field
NoKeyFor(idx, field_name) ==
    (Converted /\ idx <= Len(json_data.json_objects)) =>
        \A p \in DOMAIN json_data.json_objects[idx] :
            ~IsPrefix(PathOf(field_name), p)

\* C20: for every conditional rule and every row in which the dependency
\* condition is not met, leaving the target field empty produces no
\* validation error for that field and no key for it in the converted
\* document.
C20_OptionalWhenConditionNotMet ==
    Validated =>
        \A idx \in 1..Len(rows), k \in CondRules :
            (ConditionNotMet(idx, rules[k]) /\ Cell(idx, rules[k].name) = <<>>) =>
                /\ ErrorsFor(idx, rules[k].name) = <<>>
                /\ NoKeyFor(idx, rules[k].name)

\* C20 as it holds: the same for the rules without required: true; a rule
\* that also has required: true gets its required_field error, and no key
\* either.
C20_OptionalUnlessRequired ==
    Validated =>
        \A idx \in 1..Len(rows), k \in CondRules :
            (ConditionNotMet(idx, rules[k]) /\ Cell(idx, rules[k].name) = <<>>) =>
                /\ IF IsRequired(rules[k])
                   THEN /\ Len(ErrorsFor(idx, rules[k].name)) = 1
                        /\ ErrorsFor(idx, rules[k].name)[1].error_type
                               = "required_field"
                   ELSE ErrorsFor(idx, rules[k].name) = <<>>
                /\ NoKeyFor(idx, rules[k].name)

\* C20 witness: b.t is not required and depends on c.k and n when any is
\* present; the first row has c.k and b.t empty and no column n, the second
\* has both cells filled: no error for b.t in the first row, and of the two
\* documents only the second has the key b.t.
C20_Witness ==
    /\ Converted
    /\ rules[2].conditionalRequired = MultiCond(TRUE)
    /\ ~IsRequired(rules[2])
    /\ headers = <<kybLevel, taxId>>
    /\ Len(rows) = 2
    /\ Cell(1, kybLevel) = <<>> /\ Cell(1, taxId) = <<>>
    /\ Cell(2, kybLevel) = basic /\ Cell(2, taxId) # <<>>
    /\ ErrorsFor(1, taxId) = <<>>
    /\ Len(json_data.json_objects) = 2
    /\ PathOf(taxId) \notin DOMAIN json_data.json_objects[1]
    /\ PathOf(taxId) \in DOMAIN json_data.json_objects[2]

-----------------------------------------------------------------------------
(* Properties of the type checks, under SpecField                           *)

\* The errors of a kind among the errors validate_rows returned
ErrorsOfType(error_type) ==
    SelectSeq(validation.errors, LAMBDA e : e.error_type = error_type)

\* The range errors whose message starts with a text
RangeErrors(text) ==
    SelectSeq(ErrorsOfType("range_validation"),
              LAMBDA e : e.message.text[1] = Lit(text))

\* C21: for every non-empty value of an integer field: a value that does
\* not parse as an integer yields exactly one type error and no range
\* error; a value that parses yields a range error for min if and only if
\* it is below min and, independently, a range error for max if and only
\* if it is above max, the bounds themselves being accepted.
C21_IntegerTypeThenRange ==
    (Validated /\ Cell(1, score) # <<>>) =>
        LET value == Cell(1, score)
            rule == rules[1]
            below == "min" \in rule.keys /\ IntOf(value) < rule.min
            above == "max" \in rule.keys /\ IntOf(value) > rule.max
        IN  IF ~ParsesAsInt(value)
            THEN /\ Len(validation.errors) = 1
                 /\ Len(ErrorsOfType("type_validation")) = 1
            ELSE /\ ErrorsOfType("type_validation") = <<>>
                 /\ Len(RangeErrors("Minimum value is")) = (IF below THEN 1 ELSE 0)
                 /\ Len(RangeErrors("Maximum value is")) = (IF above THEN 1 ELSE 0)
                 /\ Len(validation.errors) =
                        (IF below THEN 1 ELSE 0) + (IF above THEN 1 ELSE 0)

\* C21 witness: rule min 0, max 100 and the value 150: exactly one range
\* error, for max.
C21_Witness ==
    /\ Validated
    /\ rules[1] = IntegerRule(TRUE, 0, TRUE, 100)
    /\ rows[1][score] = <<"1", "5", "0">>
    /\ Len(validation.errors) = 1
    /\ Len(RangeErrors("Maximum value is")) = 1

\* The other example of C21: the value abc gets exactly one type error.
C21_WitnessTypeError ==
    /\ Validated
    /\ rules[1] = IntegerRule(TRUE, 0, TRUE, 100)
    /\ rows[1][score] = <<"a", "b", "c">>
    /\ Len(validation.errors) = 1
    /\ Len(ErrorsOfType("type_validation")) = 1

\* Both range errors at once: min 5, max 3 and the value 4.
C21_WitnessBothFire ==
    /\ Validated
    /\ rows[1][score] = <<"4">>
    /\ Len(ErrorsOfType("range_validation")) = 2

-----------------------------------------------------------------------------
(* Properties of the two splits, under SpecSplit                            *)

\* The delimiter of a raw string: the pipe if it has one, else the comma if
\* it has one, else none
DelimiterOf(raw) ==
    IF "|" \in Range(raw) THEN "|" ELSE IF "," \in Range(raw) THEN "," ELSE ""

\* A piece is kept, trimmed, unless it is empty once trimmed
Kept(items, piece) ==
    IF Strip(piece) = <<>> THEN items ELSE Append(items, Strip(piece))

\* The items of a raw string, read off character by character
RECURSIVE ItemsFrom(_, _, _, _)
ItemsFrom(raw, delim, piece, items) ==
    IF raw = <<>> THEN Kept(items, piece)
    ELSE IF Head(raw) = delim
    THEN ItemsFrom(Tail(raw), delim, <<>>, Kept(items, piece))
    ELSE ItemsFrom(Tail(raw), delim, Append(piece, Head(raw)), items)

ExpectedItems(raw) == ItemsFrom(raw, DelimiterOf(raw), <<>>, <<>>)

\* C22: for every raw string the array split is on the pipe if the string
\* contains one, else on the comma if it contains one, else the whole
\* trimmed string as the only item; items are trimmed and empty items are
\* dropped; and the Validator's split and the Converter's split return the
\* same list.
C22_SplitPrecedenceAndAgreement ==
    LET raw == rows[1][tags]
    IN  /\ vpc \in {"split", "both"} => validation = ExpectedItems(raw)
        /\ vpc \in {"parsed", "both"} => json_data = ExpectedItems(raw)
        /\ vpc = "both" => validation = json_data

\* C22 witness: a|b,c is split on the pipe by both, into a and b,c.
C22_Witness ==
    /\ vpc = "both"
    /\ rows[1][tags] = <<"a", "|", "b", ",", "c">>
    /\ validation = <<<<"a">>, <<"b", ",", "c">>>>
    /\ json_data = <<<<"a">>, <<"b", ",", "c">>>>

\* The other examples of C22: a,b  solo  and the empty string.
C22_WitnessComma ==
    /\ vpc = "both"
    /\ rows[1][tags] = <<"a", ",", "b">>
    /\ validation = <<<<"a">>, <<"b">>>>

C22_WitnessSolo ==
    /\ vpc = "both"
    /\ rows[1][tags] = <<"s", "o", "l", "o">>
    /\ json_data = <<<<"s", "o", "l", "o">>>>

C22_WitnessEmpty ==
    /\ vpc = "both"
    /\ rows[1][tags] = <<>>
    /\ validation = <<>> /\ json_data = <<>>

-----------------------------------------------------------------------------
(* Properties of ragged files, under SpecRagged                             *)

\* C23: for every set of rows read from a readable input file, including
\* rows with fewer or more cells than the header line, validate_rows
\* returns a ValidationResult with structured errors and never raises an
\* exception.
C23_ValidateRowsNeverRaises ==
    /\ vpc # "raised"
    /\ Validated => validation.raised = None

\* What holds of C23: validate_rows returns its result for every file whose
\* rows have a cell for each column the rule file reads, rows with more
\* cells than columns included.
NoNoneCell ==
    \A idx \in 1..Len(rows) :
        \A h \in DOMAIN rows[idx] :
            (h \in FieldNames(rules) \cup {kybLevel, notes}) =>
                rows[idx][h] # NoneCell

ValidateRowsReturnsWithoutNone ==
    (NoNoneCell /\ vpc \notin {"headers", "rows"}) =>
        /\ vpc # "raised"
        /\ validation.raised = None

\* The columns of a row that hold a string which is not empty once trimmed
FilledFields(idx) ==
    {h \in DOMAIN rows[idx] :
        /\ rows[idx][h] \notin {NoneCell, ListCell}
        /\ Strip(rows[idx][h]) # <<>>}

\* The trimmed value of a field coerced by its declared type
Coerced(h, value) ==
    LET type == TypeOf(RuleFor(rules, h))
    IN  IF type = "integer" THEN IntValue(IntOf(value))
        ELSE IF type = "boolean" THEN BoolValue(Lower(value) = LitTrue)
        ELSE IF type = "array" THEN ListValue(ExpectedItems(value))
        ELSE StrValue(value)

\* The document of the idx-th row has a leaf at the path of exactly each
\* filled field, holding its coerced value
LeavesAreTheFilledFields(idx) ==
    /\ idx <= Len(json_data.json_objects)
    /\ LET doc == json_data.json_objects[idx]
       IN  /\ DOMAIN doc = {PathOf(h) : h \in FilledFields(idx)}
           /\ \A h \in FilledFields(idx) :
                 doc[PathOf(h)] = Coerced(h, Strip(rows[idx][h]))

\* C24: for every row and a rule file free of path collisions, the
\* converted document has a leaf at the dot-path of exactly each field of
\* the row whose trimmed value is not empty, holding that value coerced by
\* the field's declared type, and has no key for any field whose value is
\* empty. Stated for the rows the Converter is made for, those of a file
\* that passed validation.
C24_DocumentOfEveryRow ==
    (Converted /\ validation.errors = <<>>) =>
        \A idx \in 1..Len(rows) : LeavesAreTheFilledFields(idx)

\* A row that has one string for each column of the header line
Rectangular(idx) ==
    /\ RestKey \notin DOMAIN rows[idx]
    /\ \A h \in DOMAIN rows[idx] : rows[idx][h] # NoneCell

\* What holds of C24: the same for the files that passed validation and
\* whose rows all have as many cells as the header line has columns.
DocumentOfEveryRectangularValidRow ==
    (/\ Converted
     /\ validation.errors = <<>>
     /\ \A idx \in 1..Len(rows) : Rectangular(idx)) =>
        \A idx \in 1..Len(rows) : LeavesAreTheFilledFields(idx)

\* A row with more cells than columns passes validation and has no
\* document.
LongRowPassesAndRaises ==
    /\ Converted
    /\ Len(rows) = 1
    /\ RestKey \in DOMAIN rows[1]
    /\ validation.errors = <<>>
    /\ json_data.raised = "AttributeError"

\* The filled fields of a row that the rule file declares of a type
TypedFields(idx, type) ==
    {h \in FilledFields(idx) :
        h \in FieldNames(rules) /\ TypeOf(RuleFor(rules, h)) = type}

\* The rows have their documents, with a number for each filled integer
\* field and the truth value of its literal for each filled boolean field
ConvertedWithoutTypeFailure ==
    /\ json_data.raised = None
    /\ Len(json_data.json_objects) = Len(rows)
    /\ \A idx \in 1..Len(rows) :
          LET doc == json_data.json_objects[idx]
          IN  /\ \A h \in TypedFields(idx, "integer") :
                    /\ ParsesAsInt(Strip(rows[idx][h]))
                    /\ doc[PathOf(h)].type = "int"
                    /\ doc[PathOf(h)].num = IntOf(Strip(rows[idx][h]))
              /\ \A h \in TypedFields(idx, "boolean") :
                    /\ Lower(Strip(rows[idx][h])) \in {LitTrue, LitFalse}
                    /\ doc[PathOf(h)].type = "bool"
                    /\ doc[PathOf(h)].bool = (Lower(Strip(rows[idx][h])) = LitTrue)

\* C35: for every row that passes row validation with no error, conversion
\* of that row with the same rule file completes without a type failure:
\* each non-empty integer field converts to a number and each non-empty
\* boolean field is one of the literals true and false in any letter case
\* and converts to the matching truth value.
C35_ValidRowConverts ==
    (Converted /\ validation.errors = <<>>) => ConvertedWithoutTypeFailure

\* What holds of C35: the same for the rows that have as many cells as the
\* header line has columns.
RectangularValidRowConverts ==
    (/\ Converted
     /\ validation.errors = <<>>
     /\ \A idx \in 1..Len(rows) : Rectangular(idx)) => ConvertedWithoutTypeFailure

\* A row with an integer and a boolean field filled and as many cells as
\* columns passed validation and has its document.
ValidTypedRowConverted ==
    /\ Converted
    /\ validation.errors = <<>>
    /\ Len(rows) = 1
    /\ Rectangular(1)
    /\ TypedFields(1, "integer") # {}
    /\ TypedFields(1, "boolean") # {}
    /\ ConvertedWithoutTypeFailure

\* A row with an integer field filled and more cells than columns passed
\* validation and its conversion raised.
ValidLongRowRaises ==
    /\ Converted
    /\ validation.errors = <<>>
    /\ Len(rows) = 1
    /\ RestKey \in DOMAIN rows[1]
    /\ TypedFields(1, "integer") # {}
    /\ json_data.raised = "AttributeError"

-----------------------------------------------------------------------------
(* Properties of the multi-dependency rule, under SpecValidate              *)

\* The rules with a list of dependencies and whenAnyPresent true
AnyPresentRules ==
    {k \in 1..Len(rules) :
        /\ "conditionalRequired" \in rules[k].keys
        /\ ~rules[k].conditionalRequired.dependsOnIsStr
        /\ "whenAnyPresent" \in rules[k].conditionalRequired.keys
        /\ rules[k].conditionalRequired.whenAnyPresent}

\* The field is empty and a listed field is not, in the idx-th row
EmptyWithOnePresent(idx, rule) ==
    /\ Cell(idx, rule.name) = <<>>
    /\ \E d \in Range(rule.conditionalRequired.dependsOn) : Cell(idx, d) # <<>>

\* The rule of a field with its conditionalRequired taken away
Unconditional(rule) == [rule EXCEPT !.keys = @ \ {"conditionalRequired"}]

\* C37: for every field with a whenAnyPresent rule over a list of dependsOn
\* fields, the field gets a conditional-required error if and only if it
\* is empty and at least one listed field is non-empty after trimming in
\* the same row; in every other case the plain required check and the type
\* check apply to it as for a field without a conditional rule.
C37_AnyPresentDependency ==
    Validated =>
        \A idx \in 1..Len(rows) :
            \A k \in AnyPresentRules :
                LET errs == ErrorsFor(idx, rules[k].name)
                IN  IF EmptyWithOnePresent(idx, rules[k])
                    THEN /\ Len(errs) = 1
                         /\ errs[1].error_type = "conditional_required"
                    ELSE /\ \A e \in Range(errs) :
                               e.error_type # "conditional_required"
                         /\ errs = FieldErrors(idx, Unconditional(rules[k]),
                                               rows[idx])

\* C37 witness: b.t is required and depends on c.k and n. In the first row
\* c.k is empty and n is not, and the empty b.t has its conditional error;
\* in the second both are empty and the empty b.t has the required error.
C37_Witness ==
    /\ Validated
    /\ AnyPresentRules = {2}
    /\ IsRequired(rules[2])
    /\ headers = <<kybLevel, taxId, notes>>
    /\ Len(rows) = 2
    /\ Cell(1, kybLevel) = <<>> /\ Cell(1, notes) # <<>> /\ Cell(1, taxId) = <<>>
    /\ ErrorsFor(1, taxId)[1].error_type = "conditional_required"
    /\ Cell(2, kybLevel) = <<>> /\ Cell(2, taxId) = <<>>

\* With a dependency filled and b.t filled with a value that is no integer,
\* b.t has its type error.
C37_WitnessType ==
    /\ Validated
    /\ AnyPresentRules = {2}
    /\ Len(rows) = 1
    /\ Cell(1, kybLevel) = basic
    /\ Cell(1, taxId) = <<"x">>
    /\ Len(ErrorsFor(1, taxId)) = 1
    /\ ErrorsFor(1, taxId)[1].error_type # "conditional_required"

-----------------------------------------------------------------------------
(* Properties of the summary, under SpecValidate                            *)

\* The rows that have an entry in a list of errors or warnings
RowsIn(list) == {list[k].row_number : k \in 1..Len(list)}

\* C38: in every summary, invalid_rows is the number of distinct rows with
\* at least one error (a row with several failing fields counts once),
\* rows_with_warnings the number of distinct rows with at least one warning,
\* and valid_rows + invalid_rows = total_rows.
C38_SummaryCountsRows ==
    Validated =>
        /\ validation.summary.total_rows = Len(rows)
        /\ RowsIn(validation.errors) \subseteq 1..Len(rows)
        /\ validation.summary.invalid_rows = Cardinality(RowsIn(validation.errors))
        /\ validation.summary.rows_with_warnings =
               Cardinality(RowsIn(validation.warnings))
        /\ validation.summary.valid_rows + validation.summary.invalid_rows
               = validation.summary.total_rows

\* C38 witness: of two rows the first has two failing fields and the second
\* none; the summary counts one invalid row and one valid row.
C38_Witness ==
    /\ Validated
    /\ Len(rows) = 2
    /\ Len(validation.errors) = 2
    /\ RowsIn(validation.errors) = {1}
    /\ validation.summary.invalid_rows = 1
    /\ validation.summary.valid_rows = 1

-----------------------------------------------------------------------------
(* Properties of repeated conversion, under SpecValidate                    *)

\* csv_to_json is called, for the first time or again
Converts == vpc \in {"convert", "end"} /\ vpc' \in {"end", "again"}

-----------------------------------------------------------------------------
(* Properties of one send_batch run, under Spec                             *)

\* C26: in every invocation made in retry mode, that is with a list of
\* indexes, a list with no entries included, no record is submitted whose
\* index is not in the supplied list.
C26_RetrySubmitsOnlyListed ==
    retry_indexes.given =>
        \A k \in 1..Len(issued) :
            issued[k].record_index \in Range(retry_indexes.list)

\* What holds of C26: the same for the lists that have an entry.
RetrySubmitsOnlyListedOfNonEmpty ==
    (retry_indexes.given /\ retry_indexes.list # <<>>) =>
        \A k \in 1..Len(issued) :
            issued[k].record_index \in Range(retry_indexes.list)

\* A run with a list of no entries submits every record of the file.
EmptyListSubmitsAll ==
    /\ retry_indexes = RetryList(<<>>)
    /\ pc = "done"
    /\ Len(all_records) = MaxRecords
    /\ Len(issued) = MaxRecords

\* C27: in a run that completes without decline or interruption, every
\* entry of the effective selection is submitted exactly once, the
\* pre-flight record not again in the bulk phase, so the number of
\* successes plus the number of failures of the run is the size of the
\* selection.
C27_EachEntrySubmittedOnce ==
    (pc = "done" /\ confirmed # "no") =>
        /\ Len(issued) = EffectiveSize
        /\ \A k \in 1..Len(issued) :
              /\ issued[k].record_index = EffectiveIndex(k)
              /\ issued[k].record = DocAt(EffectiveIndex(k))
        /\ \A k \in 2..Len(issued) : issued[k].by # "test"
        /\ Len(successful_responses) + Len(failed_responses) = EffectiveSize
        /\ ret[1] + ret[2] = EffectiveSize

\* C27 witness: a run over a file of three records went through the
\* pre-flight request and the bulk phase and returned two successes and one
\* failure.
C27_Witness ==
    /\ pc = "done"
    /\ confirmed = "yes"
    /\ ~retry_indexes.given
    /\ NumRecords = 3
    /\ Len(issued) = 3
    /\ issued[1].by = "test"
    /\ ret = <<2, 1>>

\* The requests the pool has posted
PoolRequests == {k \in 1..Len(issued) : issued[k].by = "pool"}

\* The requests that have been posted and not answered yet
InFlight == {k \in PoolRequests :
                \A a \in answered : a.request_id # k}

\* The send-and-sleep cycles a worker is in: what it holds between taking a
\* task and handing its result back
CyclesOf(w) == IF workers[w].stage = "idle" THEN {} ELSE {workers[w].request_id}

\* C29: at every moment of the bulk phase at most num_processes requests
\* are in flight, and each worker runs at most one send-and-sleep cycle at
\* a time: the cycles that have begun and not handed their result back are
\* one per busy worker, and there are at most num_processes of them.
C29_AtMostConcurrencyInFlight ==
    pc = "bulk" =>
        /\ Cardinality(InFlight) <= num_processes
        /\ Cardinality(PoolRequests) - Len(results) <= num_processes
        /\ Cardinality(PoolRequests) - Len(results) =
               Cardinality({w \in DOMAIN workers : workers[w].stage # "idle"})
        /\ \A w \in DOMAIN workers : Cardinality(CyclesOf(w)) <= 1
        /\ \A v, w \in DOMAIN workers :
              (v # w) => (CyclesOf(v) \cap CyclesOf(w) = {})

\* C29 witness: with two worker processes, two requests of the bulk phase
\* are in flight at the same moment.
C29_Witness ==
    /\ pc = "bulk"
    /\ num_processes = 2
    /\ Cardinality(InFlight) = 2

\* A step that changes the success list or the failure list
ListsChange ==
    \/ successful_responses' # successful_responses
    \/ failed_responses' # failed_responses

\* Every record of the selection has been posted, every request has been
\* answered and every result of the pool has been handed to the loop
EveryBulkResultCollected ==
    /\ Len(issued) = EffectiveSize
    /\ InFlight = {}
    /\ Len(results) = Cardinality(PoolRequests)
    /\ \A w \in DOMAIN workers : workers[w].stage = "idle"

\* C30: the success and failure lists are changed only by the orchestrating
\* thread: no step of a worker changes them, and in the bulk phase they are
\* changed only after the result of every bulk record has been collected.
C30_ListsChangedByOrchestratorOnly ==
    [][ListsChange =>
           /\ workers' = workers
           /\ results' = results
           /\ pc = "bulk" => EveryBulkResultCollected]_vars

\* C30 witness: a run of three records has ended after its bulk phase: the
\* two results of the pool and the pre-flight result are in the lists.
C30_Witness ==
    /\ pc = "done"
    /\ Len(results) = 2
    /\ Cardinality(PoolRequests) = 2
    /\ Len(successful_responses) + Len(failed_responses) = 3
    /\ Len(successful_responses) >= 1
    /\ Len(failed_responses) >= 1

\* The worker that hands its result back in this step
Returns(w) == workers[w].stage = "ready" /\ workers'[w].stage = "idle"

\* The worker that takes a record in this step
Takes(w) == workers[w].stage # "inflight" /\ workers'[w].stage = "inflight"

\* C31: in the bulk phase with a positive delay every worker waits the
\* delay after each of its requests, successful or failed, before it
\* returns the result and takes another record; with a delay of zero no
\* worker waits; the pre-flight request never waits.
C31_WorkerWaitsAfterEachRequest ==
    [][/\ \A w \in DOMAIN workers \cap DOMAIN workers' :
             /\ Returns(w) => workers[w].slept = rate_limit_delay
             /\ Takes(w) => workers[w].stage = "idle" /\ workers[w].slept = 0
             /\ (rate_limit_delay = 0) => workers'[w].stage # "sleeping"
       /\ Len(results') > Len(results) => \E w \in DOMAIN workers : Returns(w)
       /\ Len(issued') > Len(issued) =>
             LET sent == issued'[Len(issued')]
             IN  IF sent.by = "test"
                 THEN sent.delay = 0 /\ pc' = "prompt"
                 ELSE sent.delay = rate_limit_delay]_vars

\* C31 witness: with a positive delay a worker has waited it after a
\* request that failed, and holds the result.
C31_Witness ==
    /\ pc = "bulk"
    /\ rate_limit_delay > 0
    /\ \E w \in DOMAIN workers :
          /\ workers[w].stage = "ready"
          /\ workers[w].slept = rate_limit_delay
          /\ ~workers[w].result.success

\* With a delay of zero a worker holds its result without having waited.
C31_WitnessZero ==
    /\ pc = "bulk"
    /\ rate_limit_delay = 0
    /\ \E w \in DOMAIN workers :
          workers[w].stage = "ready" /\ workers[w].slept = 0

\* The entries of a file the run has written, none if it has not
Written(n) == IF n \in DOMAIN files THEN files[n] ELSE <<>>

\* The run has returned with one result for every selected record, and the
\* two lists are in their files.
ReturnedWithEveryResult ==
    /\ pc = "done"
    /\ Len(successful_responses) + Len(failed_responses) = Len(records)
    /\ \A k \in 1..Len(records) :
          \E r \in Range(successful_responses) \cup Range(failed_responses) :
              r.record_index = record_index_map[k]
    /\ Written("success") = successful_responses
    /\ Written("failed") = failed_responses
    /\ ret = <<Len(successful_responses), Len(failed_responses)>>

\* C32: if the operator confirms at the gate, no interruption occurs and
\* every request ends, the run eventually has one collected result for
\* every selected record, persists the success and failure lists, and
\* returns.
C32_ConfirmedRunCompletes ==
    [](pc # "interrupted") => ((confirmed = "yes") ~> ReturnedWithEveryResult)

\* C32 witness: the operator has confirmed and the run has returned with
\* the results of three records, of both kinds, in the two files.
C32_Witness ==
    /\ confirmed = "yes"
    /\ ReturnedWithEveryResult
    /\ Len(records) = 3
    /\ Written("success") # <<>>
    /\ Written("failed") # <<>>

-----------------------------------------------------------------------------
(* Properties of the documents main.py submits, under SpecMain              *)

\* The leaf paths the rule file gives a document
FieldPaths == {SplitOn(f, ".") : f \in FieldNames(rules)}

\* The documents handed to send_batch and those posted
Submitted ==
    (IF main.pc = "send_batch" \/ Logged("send_batch")
     THEN Range(all_records) ELSE {})
    \cup {issued[k].record : k \in 1..Len(issued)}

\* C36: every document that the pipeline converts and hands to the sender
\* has only leaf paths that are field paths of the rule file: a column whose
\* header is no key of the rule file never contributes a key to a submitted
\* document.
C36_SubmittedLeavesAreFieldPaths ==
    \A doc \in Submitted : DOMAIN doc \subseteq FieldPaths

\* What holds of C36: the same when every column of the file has a name.
NamedColumnsLeavesAreFieldPaths ==
    (\A k \in 1..Len(headers) : headers[k] # <<>>) =>
        \A doc \in Submitted : DOMAIN doc \subseteq FieldPaths

\* A document with a leaf under the empty key has been posted.
NamelessColumnSubmitted ==
    \E k \in 1..Len(issued) : <<<<>>>> \in DOMAIN issued[k].record

-----------------------------------------------------------------------------
(* Properties of a sender that runs two batches, under SpecReuse            *)

\* C28: the counts returned by a run are the numbers of successes and
\* failures among the records submitted by that invocation only, and the
\* files it writes hold only that invocation's results, also when the same
\* APISender has already run an earlier batch.
C28_CountsAndFilesOfThisRunOnly ==
    (pc = "done" /\ issued # <<>>) =>
        /\ ret[1] + ret[2] = Len(issued)
        /\ Len(Written("success")) + Len(Written("failed")) = Len(issued)
        /\ \A r \in Range(Written("success")) \cup Range(Written("failed")) :
              \E k \in 1..Len(issued) : issued[k].record_index = r.record_index

\* What holds of C28: the same for the first run of a sender.
CountsAndFilesOfFirstRun ==
    (pc = "done" /\ issued # <<>> /\ ~earlier.given) =>
        /\ ret[1] + ret[2] = Len(issued)
        /\ Len(Written("success")) + Len(Written("failed")) = Len(issued)

\* The second run of a sender over a file of one record returns two
\* results.
SecondRunCountsTheFirst ==
    /\ pc = "done"
    /\ earlier.given
    /\ NumRecords = 1
    /\ Len(issued) = 1
    /\ ret[1] + ret[2] = 2

====
